---------------------------- MODULE Spec2Model ----------------------------
(***************************************************************************)
(* A model of the LLM gateway core of openmanus: the in-memory sliding     *)
(* window rate limiter, the response caches (in-process LRU and Redis),    *)
(* the cost tracker and the LiteLLM adapter (cache look-up, retrying       *)
(* provider call, error mapping, cache write).                             *)
(*                                                                         *)
(* Every component has its own next-state relation and specification over  *)
(* the one set of variables; a component's actions leave the variables of  *)
(* the other components unchanged.                                         *)
(***************************************************************************)
EXTENDS Integers, Sequences, FiniteSets, TLC

(***************************************************************************)
(* Bounds of the model.                                                    *)
(***************************************************************************)
\* the wall clock at construction (time.time() is far above the window)
T0 == 100
\* the clock is followed for this many seconds
MaxElapsed == 62
\* the longest list of request timestamps a window is followed to
MaxReq == 3
\* the rpm limit configured for model "a"
RpmA == 2
\* the largest token count of one request
MaxTok == 1
\* the largest max_size of the in-process cache
MaxCap == 2
\* the longest list of cost records followed
MaxRecords == 3
\* the largest cost of one call, in micro-USD
MaxCost == 1
\* the most calls of on_budget_exceeded followed
MaxCalls == 3
\* the largest max_retries an adapter is configured with
MaxRetriesSetting == 3
\* the largest concurrent_limit check_all() is called with
MaxLimit == 2
\* the most chunks a provider's stream has
MaxChunks == 2
MaxMsgs == 2
MaxUsage == 2
MaxFallbacks == 2

(***************************************************************************)
(* Program constants.                                                      *)
(***************************************************************************)
\* the sliding window, in seconds
Window == 60
\* stop_after_attempt(3) of _execute_with_retry
StopAfterAttempt == 3
\* the default of LLMSettings.max_retries
DefaultMaxRetries == 3
\* the milliseconds complete() measures when it answers from the cache
HitLatency == 0
\* ModelRateLimits.tpm default
DefaultTpm == 100000
\* expire(rpm_key, 120) and expire(tpm_key, 60) of RedisRateLimiter.record
RpmKeyTtl == 120
TpmKeyTtl == 60
\* the expiry time of a Redis key that has no time to live
Persistent == -1
\* cache_ttl_seconds and max_retries of LLMHealthChecker
CacheTtl == 60
HealthMaxRetries == 1

\* the Python None, a record so that it compares with requests and responses
None == [none |-> TRUE]

Max(a, b) == IF a >= b THEN a ELSE b

RECURSIVE SeqMin(_)
SeqMin(s) ==
    IF Len(s) = 1 THEN s[1]
    ELSE LET m == SeqMin(Tail(s)) IN IF s[1] <= m THEN s[1] ELSE m

RECURSIVE SeqSum(_)
SeqSum(s) == IF s = <<>> THEN 0 ELSE s[1] + SeqSum(Tail(s))

VARIABLES
    now,        \* time.time()
    rlData,     \* MemoryRateLimiter._data: model -> _WindowData
    rlLast,     \* what the latest operation returned, when it was a check()
    rlScript,   \* progress of the run check(), record(), check(), record(), ...
    max_size,   \* MemoryLLMCache._max_size
    cache,      \* MemoryLLMCache._cache: the OrderedDict, oldest entry first
    cache_type, \* the kind of cache create_cache() built: "memory" or "redis"
    redis,      \* the entries of the Redis database: key and serialized response
    cLast,      \* the latest cache operation and what it returned
    cRun,       \* the keys of the set() calls made since the latest other operation
    cAccess,    \* the keys held, in the order of their latest set() or hit get() on MemoryLLMCache
    ctBudget,   \* CostTracker._budget (None: no budget)
    ctCallback, \* whether CostTracker._on_budget_exceeded is set
    ctRecords,  \* CostTracker._records
    ctTotal,    \* CostTracker._total_cost
    ctCalls,    \* the calls of on_budget_exceeded made so far
    ctSpent,    \* task -> the cost_usd passed to record() for it since the latest clear()
    adMaxRetries, \* LiteLLMAdapter._settings.max_retries
    adHasCache, \* whether LiteLLMAdapter._cache is set
    adCacheRaises, \* whether get() and set() of that cache can raise
    adCall,     \* the adapter call in progress, or the one that ended last
    rl_type,    \* the kind of RateLimiter in use: "memory" or "redis"
    rr,         \* the Redis keys of RedisRateLimiter: model -> rpm sorted set, tpm counter
    rrFlaky,    \* whether the Redis backend of the limiter raises errors in this run
    lmLast,     \* the latest RateLimiter operation and what it returned
    lmDeny,     \* the latest check() denied for rpm with no record() on the model since
    lmHist,     \* the record() calls made so far: model, tokens, time
    callers,    \* the concurrent callers of one limiter: where each is in check, call, record
    hcCache,    \* LLMHealthChecker._health_cache: model -> ModelHealth (None: no entry)
    hcLast,     \* the latest LLMHealthChecker call, the probes it issued and what it returned
    ca,         \* the check_all() in progress: its semaphore and its check_model() tasks
    kc,         \* the two requests whose cache keys are compared, and their keys
    tr,         \* the span of the traced completion in progress, or of the latest one
    us,         \* the latest provider response parsed by the adapter or the router, and what came of it
    rt          \* the LLMRouter: its settings, what _create_router built, its latest complete()

rlVars == <<now, rlData, rlLast, rlScript>>
memVars == <<cache_type, max_size, cache, redis, cLast, cRun, cAccess>>
costVars == <<ctBudget, ctCallback, ctRecords, ctTotal, ctCalls, ctSpent>>
adVars == <<adMaxRetries, adHasCache, adCacheRaises, adCall>>
lmVars == <<rl_type, rr, rrFlaky, lmLast, lmDeny, lmHist>>
clVars == <<callers>>
hcVars == <<hcCache, hcLast>>
caVars == <<ca>>
kcVars == <<kc>>
trVars == <<tr>>
usVars == <<us>>
rtVars == <<rt>>
vars == <<rlVars, memVars, costVars, adVars, lmVars, clVars, hcVars, caVars, kcVars, trVars, usVars, rtVars>>

(***************************************************************************)
(* MemoryRateLimiter                                                       *)
(***************************************************************************)
Models == {"a", "b"}

\* _model_limits / _default_limits: "a" has its own rpm, "b" a small tpm
ModelLimits ==
    [m \in Models |->
        IF m = "a" THEN [rpm |-> RpmA, tpm |-> DefaultTpm]
        ELSE [rpm |-> MaxReq, tpm |-> MaxTok + 1]]

get_limits(m) == ModelLimits[m]

\* a fresh _WindowData
WindowData == [requests |-> <<>>, tokens |-> 0, window_start |-> 0]

clean_window(d, t) ==
    LET window_start == t - Window
        kept == SelectSeq(d.requests, LAMBDA x : x > window_start)
    IN  IF d.window_start < window_start
        THEN [requests |-> kept, tokens |-> 0, window_start |-> t]
        ELSE [d EXCEPT !.requests = kept]

\* check() admitting one request too many: > for >=
check_result_off_by_one(d, limits, estimated_tokens, t) ==
    IF Len(d.requests) > limits.rpm
    THEN [allowed |-> FALSE, wait_seconds |-> Window, reason |-> "rpm"]
    ELSE [allowed |-> TRUE, wait_seconds |-> 0, reason |-> "none"]

\* check() denying a request that fills the token budget exactly: >= for >
check_result_tpm_inclusive(d, limits, estimated_tokens, t) ==
    IF Len(d.requests) >= limits.rpm
    THEN [allowed |-> FALSE, wait_seconds |-> Window, reason |-> "rpm"]
    ELSE IF d.tokens + estimated_tokens >= limits.tpm
    THEN [allowed |-> FALSE, wait_seconds |-> Window, reason |-> "tpm"]
    ELSE [allowed |-> TRUE, wait_seconds |-> 0, reason |-> "none"]

\* the RateLimitResult of check() on the cleaned window d at time t
check_result(d, limits, estimated_tokens, t) ==
    IF Len(d.requests) >= limits.rpm
    THEN LET oldest == IF d.requests # <<>> THEN SeqMin(d.requests) ELSE t
             wait_time == Window - (t - oldest)
         IN  [allowed |-> FALSE, wait_seconds |-> Max(0, wait_time), reason |-> "rpm"]
    ELSE IF d.tokens + estimated_tokens > limits.tpm
    THEN [allowed |-> FALSE, wait_seconds |-> Window, reason |-> "tpm"]
    ELSE [allowed |-> TRUE, wait_seconds |-> 0, reason |-> "none"]

\* rlLast when the latest operation was not a check()
NoCheck ==
    [model |-> "a", allowed |-> TRUE, wait_seconds |-> 0, reason |-> "none",
     seen |-> FALSE]

\* the run of the claim about admission: strictly alternating check(), record()
\* on one model of a limiter that starts with no usage; pairs counts the
\* finished pairs, start is the time of the run's first check()
FreshScript == [ok |-> TRUE, model |-> "a", pairs |-> 0, start |-> 0, expect |-> "check"]
OffScript == [ok |-> FALSE, model |-> "a", pairs |-> 0, start |-> 0, expect |-> "off"]

started(s) == s.expect = "record" \/ s.pairs > 0

script_after_check(s, m, t) ==
    IF ~s.ok THEN s
    ELSE IF ~started(s) THEN [s EXCEPT !.model = m, !.start = t, !.expect = "record"]
    ELSE IF s.model # m THEN s
    ELSE IF s.expect = "check" THEN [s EXCEPT !.expect = "record"]
    ELSE OffScript

script_after_record(s, m) ==
    IF ~s.ok THEN s
    ELSE IF ~started(s) THEN OffScript
    ELSE IF s.model # m THEN s
    ELSE IF s.expect = "record" THEN [s EXCEPT !.expect = "check", !.pairs = s.pairs + 1]
    ELSE OffScript

script_after_get_usage(s, m) ==
    IF s.ok /\ started(s) /\ s.model = m THEN OffScript ELSE s

OnlyRL == UNCHANGED <<kcVars, trVars, usVars, rtVars, memVars, costVars, adVars, lmVars, clVars, hcVars, caVars>>

InitRL ==
    /\ now = T0
    /\ rlData = [m \in Models |-> WindowData]
    /\ rlLast = NoCheck
    /\ rlScript = FreshScript

RecordsHeld == SeqSum([i \in 1..2 |-> Len(rlData[IF i = 1 THEN "a" ELSE "b"].requests)])

MemoryRateLimiter_check(m, estimated_tokens) ==
    LET d == clean_window(rlData[m], now)
        r == check_result(d, get_limits(m), estimated_tokens, now)
    IN  /\ rlData' = [rlData EXCEPT ![m] = d]
        /\ rlLast' = [model |-> m, allowed |-> r.allowed,
                      wait_seconds |-> r.wait_seconds, reason |-> r.reason,
                      seen |-> TRUE]
        /\ rlScript' = script_after_check(rlScript, m, now)
        /\ UNCHANGED now
        /\ OnlyRL

MemoryRateLimiter_record(m, tokens) ==
    LET d == clean_window(rlData[m], now)
    IN  /\ RecordsHeld < MaxReq
        /\ rlData' = [rlData EXCEPT ![m] =
                [d EXCEPT !.requests = Append(d.requests, now),
                          !.tokens = d.tokens + tokens]]
        /\ rlScript' = script_after_record(rlScript, m)
        /\ rlLast' = NoCheck
        /\ UNCHANGED now
        /\ OnlyRL

\* get_usage() cleans the window and returns the counts
usage_of(d, limits) ==
    [rpm_used |-> Len(d.requests), rpm_limit |-> limits.rpm,
     tpm_used |-> d.tokens, tpm_limit |-> limits.tpm]

MemoryRateLimiter_get_usage(m) ==
    LET d == clean_window(rlData[m], now)
    IN  /\ d # rlData[m]
        /\ rlData' = [rlData EXCEPT ![m] = d]
        /\ rlScript' = script_after_get_usage(rlScript, m)
        /\ rlLast' = NoCheck
        /\ UNCHANGED now
        /\ OnlyRL

\* the clock moves on; what is kept about the latest operation is dropped,
\* and so is a denial whose wait is over
Tick(d) ==
    /\ now + d <= T0 + MaxElapsed
    /\ now' = now + d
    /\ rlLast' = NoCheck
    /\ lmLast' = [op |-> "none", model |-> "a", tokens |-> 0, at |-> 0, failed |-> FALSE,
                  raised |-> "none", result |-> None, usage |-> None, deny |-> None]
    /\ lmDeny' = IF lmDeny # None /\ now + d > lmDeny.at + lmDeny.wait_seconds
                 THEN None ELSE lmDeny
    /\ UNCHANGED <<rlData, rlScript, rl_type, rr, rrFlaky, lmHist>>
    /\ UNCHANGED <<kcVars, trVars, usVars, rtVars, memVars, costVars, adVars, clVars, hcVars, caVars>>

NextRL ==
    \/ \E m \in Models, e \in 0..MaxTok : MemoryRateLimiter_check(m, e)
    \/ \E m \in Models, k \in 1..MaxTok : MemoryRateLimiter_record(m, k)
    \/ \E m \in Models : MemoryRateLimiter_get_usage(m)
    \/ \E d \in {30, 31} : Tick(d)

(***************************************************************************)
(* RedisRateLimiter, and the RateLimiter interface over both limiters      *)
(***************************************************************************)
SetMin(S) == CHOOSE x \in S : \A y \in S : x <= y

\* the Redis keys of a model nothing was recorded for; an expiry time of 0
\* is that of a key that does not exist
RedisKeysOf == [zset |-> {}, rpm_exp |-> 0, tpm |-> 0, tpm_exp |-> 0]

key_exists(exp, t) == exp = Persistent \/ t < exp

\* the sorted set ratelimit:rpm:{model} at time t: its scores (the member of
\* a score is str(score), so that one score has one member)
zset_at(k, t) == IF key_exists(k.rpm_exp, t) THEN k.zset ELSE {}

\* int(GET ratelimit:tpm:{model}) at time t, 0 without the key
tpm_at(k, t) == IF key_exists(k.tpm_exp, t) THEN k.tpm ELSE 0

\* ZCOUNT key lo hi: both ends inclusive
zcount(z, lo, hi) == Cardinality({x \in z : lo <= x /\ x <= hi})

\* RedisRateLimiter.check() denying the request when the backend fails
redis_check_result_fail_closed(k, limits, estimated_tokens, t, failed) ==
    IF failed
    THEN [allowed |-> FALSE, wait_seconds |-> Window, reason |-> "rpm"]
    ELSE [allowed |-> TRUE, wait_seconds |-> 0, reason |-> "none"]

\* the exception that leaves check(), record() or get_usage() of either
\* limiter: the Redis one catches RedisError around its whole body
limiter_raised(failed) == "none"

\* RedisRateLimiter.check(): failed when a command raises RedisError
redis_check_result(k, limits, estimated_tokens, t, failed) ==
    LET z == zset_at(k, t)
        rpm_count == zcount(z, t - Window, t)
    IN  IF failed
        THEN [allowed |-> TRUE, wait_seconds |-> 0, reason |-> "none"]
        ELSE IF rpm_count >= limits.rpm /\ z # {}
        THEN [allowed |-> FALSE, wait_seconds |-> Max(0, Window - (t - SetMin(z))),
              reason |-> "rpm"]
        ELSE IF tpm_at(k, t) + estimated_tokens > limits.tpm
        THEN [allowed |-> FALSE, wait_seconds |-> Window, reason |-> "tpm"]
        ELSE [allowed |-> TRUE, wait_seconds |-> 0, reason |-> "none"]

\* the five commands of RedisRateLimiter.record(), in order
redis_zadd(k, t) ==
    [k EXCEPT !.zset = zset_at(k, t) \cup {t},
              !.rpm_exp = IF key_exists(k.rpm_exp, t) THEN @ ELSE Persistent]
redis_zremrangebyscore(k, t) == [k EXCEPT !.zset = {x \in @ : x > t - Window}]
redis_expire_rpm(k, t) == [k EXCEPT !.rpm_exp = t + RpmKeyTtl]
redis_incrby(k, tokens, t) ==
    [k EXCEPT !.tpm = tpm_at(k, t) + tokens,
              !.tpm_exp = IF key_exists(k.tpm_exp, t) THEN @ ELSE Persistent]
redis_expire_tpm(k, t) == [k EXCEPT !.tpm_exp = t + TpmKeyTtl]

\* the keys after record() whose command number fail_at raised RedisError
\* (0: none did)
redis_record(k, tokens, t, fail_at) ==
    LET done(n) == fail_at = 0 \/ n < fail_at
        k1 == IF done(1) THEN redis_zadd(k, t) ELSE k
        k2 == IF done(2) THEN redis_zremrangebyscore(k1, t) ELSE k1
        k3 == IF done(3) THEN redis_expire_rpm(k2, t) ELSE k2
        k4 == IF done(4) THEN redis_incrby(k3, tokens, t) ELSE k3
    IN  IF done(5) THEN redis_expire_tpm(k4, t) ELSE k4

\* RedisRateLimiter.get_usage()
redis_usage(k, limits, t, failed) ==
    IF failed
    THEN [rpm_used |-> 0, rpm_limit |-> 0, tpm_used |-> 0, tpm_limit |-> 0]
    ELSE [rpm_used |-> zcount(zset_at(k, t), t - Window, t), rpm_limit |-> limits.rpm,
          tpm_used |-> tpm_at(k, t), tpm_limit |-> limits.tpm]

\* what get_usage(m) would return now
Usage(m) ==
    IF rl_type = "memory"
    THEN usage_of(clean_window(rlData[m], now), get_limits(m))
    ELSE redis_usage(rr[m], get_limits(m), now, FALSE)

NoLimiterOp ==
    [op |-> "none", model |-> "a", tokens |-> 0, at |-> 0, failed |-> FALSE,
     raised |-> "none", result |-> None, usage |-> None, deny |-> None]

\* whether the backend failed during a record() call so far: a run is
\* followed up to its first such call, and through the checks after it
Faulted == \E i \in 1..Len(lmHist) : lmHist[i].failed

InitLimiter(type, flaky) ==
    /\ rl_type = type
    /\ rrFlaky = flaky
    /\ rr = [m \in Models |-> RedisKeysOf]
    /\ lmLast = NoLimiterOp
    /\ lmDeny = None
    /\ lmHist = <<>>

OnlyLimiter == UNCHANGED <<kcVars, trVars, usVars, rtVars, rlLast, rlScript, memVars, costVars, adVars, clVars, hcVars, caVars>>

\* whether the backend fails during a call, and the command of record() that
\* fails (0: none)
BackendFails == IF rl_type = "redis" /\ rrFlaky THEN BOOLEAN ELSE {FALSE}
FailingCommand == IF rl_type = "redis" /\ rrFlaky THEN 0..5 ELSE {0}

RateLimiter_check(m, estimated_tokens) ==
    \E failed \in BackendFails :
    LET d == clean_window(rlData[m], now)
        r == IF rl_type = "memory"
             THEN check_result(d, get_limits(m), estimated_tokens, now)
             ELSE redis_check_result(rr[m], get_limits(m), estimated_tokens, now, failed)
    IN  /\ rlData' = IF rl_type = "memory" THEN [rlData EXCEPT ![m] = d] ELSE rlData
        /\ lmLast' = [NoLimiterOp EXCEPT !.op = "check", !.model = m,
                        !.tokens = estimated_tokens, !.at = now, !.failed = failed,
                        !.raised = limiter_raised(failed), !.result = r, !.usage = Usage(m),
                        !.deny = IF lmDeny # None /\ lmDeny.model = m
                                 THEN lmDeny ELSE None]
        /\ lmDeny' = IF ~r.allowed /\ r.reason = "rpm"
                     THEN [model |-> m, at |-> now, wait_seconds |-> r.wait_seconds]
                     ELSE lmDeny
        /\ UNCHANGED <<now, rl_type, rr, rrFlaky, lmHist>>
        /\ OnlyLimiter

RateLimiter_record(m, tokens) ==
    \E fail_at \in FailingCommand :
    LET d == clean_window(rlData[m], now)
    IN  /\ Len(lmHist) < MaxReq
        /\ ~Faulted
        /\ IF rl_type = "memory"
           THEN /\ rlData' = [rlData EXCEPT ![m] =
                        [d EXCEPT !.requests = Append(d.requests, now),
                                  !.tokens = d.tokens + tokens]]
                /\ rr' = rr
           ELSE /\ rr' = [rr EXCEPT ![m] = redis_record(rr[m], tokens, now, fail_at)]
                /\ rlData' = rlData
        /\ lmLast' = [NoLimiterOp EXCEPT !.op = "record", !.model = m,
                        !.tokens = tokens, !.at = now, !.failed = fail_at # 0,
                        !.raised = limiter_raised(fail_at # 0)]
        /\ lmDeny' = IF lmDeny # None /\ lmDeny.model = m THEN None ELSE lmDeny
        /\ lmHist' = Append(lmHist, [model |-> m, tokens |-> tokens, at |-> now,
                                     failed |-> fail_at # 0])
        /\ UNCHANGED <<now, rl_type, rrFlaky>>
        /\ OnlyLimiter

RateLimiter_get_usage(m) ==
    \E failed \in BackendFails :
    LET d == clean_window(rlData[m], now)
        u == IF rl_type = "memory" THEN usage_of(d, get_limits(m))
             ELSE redis_usage(rr[m], get_limits(m), now, failed)
    IN  /\ rlData' = IF rl_type = "memory" THEN [rlData EXCEPT ![m] = d] ELSE rlData
        /\ lmLast' = [NoLimiterOp EXCEPT !.op = "get_usage", !.model = m, !.at = now,
                        !.failed = failed, !.raised = limiter_raised(failed),
                        !.result = u]
        /\ UNCHANGED <<now, rl_type, rr, rrFlaky, lmDeny, lmHist>>
        /\ OnlyLimiter

\* the token counts record() is called with: every count for "b", whose tpm
\* limit is small, and the largest for "a", whose tpm limit is out of reach
RecordTokens(m) == IF m = "b" THEN 1..MaxTok ELSE {MaxTok}

NextLimiter ==
    \/ \E m \in Models, e \in {0, MaxTok} : RateLimiter_check(m, e)
    \/ \E m \in Models : \E k \in RecordTokens(m) : RateLimiter_record(m, k)
    \/ \E m \in Models : RateLimiter_get_usage(m)
    \/ \E d \in {30, 31} : Tick(d)


(***************************************************************************)
(* Concurrent callers of one limiter: each runs check(), then, when the    *)
(* check allowed it, the provider call and record(). check() and record()  *)
(* are separate calls of the limiter, and other callers run between them.  *)
(***************************************************************************)
\* the callers racing for model "a": one more than its rpm limit
Callers == 1..(RpmA + 1)
CallerModel == "a"

InitCallers == callers = [c \in Callers |-> [pc |-> "idle", at |-> 0]]

OnlyCallers ==
    UNCHANGED <<kcVars, trVars, usVars, rtVars, now, rlLast, rlScript, memVars, costVars, adVars, hcVars, caVars, rl_type,
                rrFlaky, lmLast, lmDeny, lmHist>>

\* result = await limiter.check(model): an allowed caller goes on to the
\* provider, a denied one waits and checks again
Caller_check(c) ==
    LET d == clean_window(rlData[CallerModel], now)
        r == IF rl_type = "memory"
             THEN check_result(d, get_limits(CallerModel), 0, now)
             ELSE redis_check_result(rr[CallerModel], get_limits(CallerModel), 0, now, FALSE)
    IN  /\ callers[c].pc \in {"idle", "waiting"}
        /\ rlData' = IF rl_type = "memory" THEN [rlData EXCEPT ![CallerModel] = d] ELSE rlData
        /\ callers' = [callers EXCEPT ![c].pc = IF r.allowed THEN "admitted" ELSE "waiting"]
        /\ rr' = rr
        /\ OnlyCallers

\* the provider call of an admitted caller
Caller_call(c) ==
    /\ callers[c].pc = "admitted"
    /\ callers' = [callers EXCEPT ![c] = [pc |-> "called", at |-> now]]
    /\ UNCHANGED <<rlData, rr>>
    /\ OnlyCallers

\* await limiter.record(model, tokens) after the provider answered
Caller_record(c) ==
    LET d == clean_window(rlData[CallerModel], now)
    IN  /\ callers[c].pc = "called"
        /\ IF rl_type = "memory"
           THEN /\ rlData' = [rlData EXCEPT ![CallerModel] =
                        [d EXCEPT !.requests = Append(d.requests, now),
                                  !.tokens = d.tokens + MaxTok]]
                /\ rr' = rr
           ELSE /\ rr' = [rr EXCEPT ![CallerModel] = redis_record(rr[CallerModel], MaxTok, now, 0)]
                /\ rlData' = rlData
        /\ callers' = [callers EXCEPT ![c].pc = "done"]
        /\ OnlyCallers

NextCallers ==
    \/ \E c \in Callers : Caller_check(c)
    \/ \E c \in Callers : Caller_call(c)
    \/ \E c \in Callers : Caller_record(c)
    \/ \E d \in {30, 31} : Tick(d)


(***************************************************************************)
(* Requests, responses and the cache key                                   *)
(***************************************************************************)
\* the message lists requests are made of
Messages == 1..(MaxCap + 2)

\* CompletionRequest (temperature in tenths)
Requests ==
    [model : {"a"}, messages : Messages, temperature : {7}, max_tokens : {4096},
     stream : BOOLEAN]

\* CompletionResponse (latency in ms, cost in micro-USD)
Responses ==
    [content : {"x", "y"}, model : {"a"}, prompt_tokens : {1}, completion_tokens : {2},
     total_tokens : {3}, finish_reason : {"stop"}, latency_ms : {5}, cost_usd : {4}]

\* a key that also depends on the stream flag
build_cache_key_with_stream(request) ==
    <<request.model, request.messages, request.temperature, request.max_tokens,
      request.stream>>

\* _build_cache_key: SHA-256 of the canonical JSON of these four fields, taken
\* to be free of collisions
build_cache_key(request) ==
    <<request.model, request.messages, request.temperature, request.max_tokens>>

(***************************************************************************)
(* MemoryLLMCache                                                          *)
(***************************************************************************)
Keys(c) == {c[i].key : i \in 1..Len(c)}
IndexOf(c, key) == CHOOSE i \in 1..Len(c) : c[i].key = key
ValueOf(c, key) == c[IndexOf(c, key)].value

\* OrderedDict.move_to_end(key)
move_to_end(c, key) ==
    LET e == c[IndexOf(c, key)]
    IN  Append(SelectSeq(c, LAMBDA x : x.key # key), e)

\* OrderedDict.popitem(last=False)
popitem_first(c) == Tail(c)

\* OrderedDict.__setitem__: a stored key keeps its place, a new key goes last
setitem(c, key, value) ==
    IF key \in Keys(c)
    THEN [i \in 1..Len(c) |-> IF c[i].key = key THEN [key |-> key, value |-> value] ELSE c[i]]
    ELSE Append(c, [key |-> key, value |-> value])

\* what get() returns
mem_get_result(c, request) ==
    LET key == build_cache_key(request)
    IN  IF key \in Keys(c) THEN ValueOf(c, key) ELSE None

\* the OrderedDict after get()
mem_get_cache(c, request) ==
    LET key == build_cache_key(request)
    IN  IF key \in Keys(c) THEN move_to_end(c, key) ELSE c

\* popitem(last=False) raises KeyError on an empty OrderedDict, which set()
\* reaches when the cache holds nothing and max_size is not positive
mem_set_raised(c, k) == IF Len(c) >= k /\ Len(c) = 0 THEN "KeyError" ELSE "none"

\* set() that never evicts
mem_set_cache_no_eviction(c, k, request, response) ==
    setitem(c, build_cache_key(request), response)

\* set() evicting the newest entry: popitem() for popitem(last=False)
mem_set_cache_pop_last(c, k, request, response) ==
    LET key == build_cache_key(request)
        kept == IF Len(c) >= k THEN SubSeq(c, 1, Len(c) - 1) ELSE c
    IN  setitem(kept, key, response)

\* the OrderedDict after set(), for capacity k
mem_set_cache(c, k, request, response) ==
    LET key == build_cache_key(request)
        kept == IF Len(c) >= k THEN popitem_first(c) ELSE c
    IN  setitem(kept, key, response)


\* the OrderedDict after delete()
mem_delete_cache(c, request) ==
    SelectSeq(c, LAMBDA x : x.key # build_cache_key(request))

(***************************************************************************)
(* RedisLLMCache                                                           *)
(***************************************************************************)
\* model_dump_json() leaving latency_ms out
model_dump_json_no_latency(response) ==
    <<response.content, response.model,
      <<response.prompt_tokens, response.completion_tokens, response.total_tokens>>,
      response.finish_reason, 0, response.cost_usd>>

\* response.model_dump_json(): the fields in the order of their declaration
model_dump_json(response) ==
    <<response.content, response.model,
      <<response.prompt_tokens, response.completion_tokens, response.total_tokens>>,
      response.finish_reason, response.latency_ms, response.cost_usd>>

\* CompletionResponse.model_validate_json(data)
model_validate_json(data) ==
    [content |-> data[1], model |-> data[2], prompt_tokens |-> data[3][1],
     completion_tokens |-> data[3][2], total_tokens |-> data[3][3],
     finish_reason |-> data[4], latency_ms |-> data[5], cost_usd |-> data[6]]

\* the keys the Redis database holds
RedisKeys(db) == {e.key : e \in db}
RedisData(db, key) == (CHOOSE e \in db : e.key = key).data

\* get(): what it returns and the exception that leaves it; failed says that
\* the call of the Redis client raised RedisError
redis_get_outcome(db, request, failed) ==
    LET key == build_cache_key(request)
    IN  IF failed THEN [value |-> None, raised |-> "none"]
        ELSE IF key \in RedisKeys(db) /\ RedisData(db, key) # <<>>
        THEN [value |-> model_validate_json(RedisData(db, key)), raised |-> "none"]
        ELSE [value |-> None, raised |-> "none"]

\* the database after setex(key, ttl, data)
redis_setex(db, key, data) ==
    {e \in db : e.key # key} \cup {[key |-> key, data |-> data]}

\* set(): the database after it and the exception that leaves it
redis_set_outcome(db, request, response, failed) ==
    IF failed THEN [db |-> db, raised |-> "none"]
    ELSE [db |-> redis_setex(db, build_cache_key(request), model_dump_json(response)),
          raised |-> "none"]

\* delete() without its except clause
redis_delete_outcome_raising(db, request, failed) ==
    LET key == build_cache_key(request)
    IN  IF failed THEN [db |-> db, value |-> None, raised |-> "RedisError"]
        ELSE [db |-> {e \in db : e.key # key}, value |-> (key \in RedisKeys(db)),
              raised |-> "none"]

\* delete(): the database after it, what it returns, the exception that leaves it
redis_delete_outcome(db, request, failed) ==
    LET key == build_cache_key(request)
    IN  IF failed THEN [db |-> db, value |-> FALSE, raised |-> "none"]
        ELSE [db |-> {e \in db : e.key # key}, value |-> (key \in RedisKeys(db)),
              raised |-> "none"]

\* clear(): scan and delete page by page; when a call of the client raises, the
\* keys of the pages deleted before it are gone and the others are left
redis_clear_outcome(db, failed, deleted) ==
    IF failed THEN [db |-> {e \in db : e.key \notin deleted}, raised |-> "none"]
    ELSE [db |-> {}, raised |-> "none"]

(***************************************************************************)
(* The cache create_cache() builds, and its operations                     *)
(***************************************************************************)
NoOp ==
    [op |-> "none", key |-> None, value |-> None, after_set |-> None,
     failed |-> FALSE, raised |-> "none", before |-> {}]

\* a run of set() calls with distinct keys that were not stored when the run
\* began: the keys set, in order, and the keys stored at its beginning; a run
\* ends with the set() that repeats a key, sets a key stored at its beginning
\* or follows the k+1-th call, and the next one begins after another operation
FreshRun == [on |-> TRUE, keys |-> <<>>, base |-> {}]
NoRun == [on |-> FALSE, keys |-> <<>>, base |-> {}]

run_after_set(run, k, key) ==
    IF /\ run.on
       /\ Len(run.keys) <= k
       /\ key \notin run.base
       /\ \A i \in 1..Len(run.keys) : run.keys[i] # key
    THEN [run EXCEPT !.keys = Append(@, key)]
    ELSE NoRun

\* the order of latest access after an operation on key that leaves the keys
\* held: a set() or a hit get() makes key the most recent, a miss or a delete()
\* touches no entry
access_after(order, held, key) ==
    SelectSeq(order, LAMBDA x : x \in held /\ x # key)
        \o (IF key \in held THEN <<key>> ELSE <<>>)

\* create_cache(cache_type, max_size=k)
InitCache(type, k) ==
    /\ cache_type = type
    /\ max_size = k
    /\ cache = <<>>
    /\ redis = {}
    /\ cLast = NoOp
    /\ cRun = FreshRun
    /\ cAccess = <<>>

OnlyCache == UNCHANGED <<kcVars, trVars, usVars, rtVars, rlVars, costVars, adVars, lmVars, clVars, hcVars, caVars>>

MemoryLLMCache_get(request) ==
    /\ cache_type = "memory"
    /\ cache' = mem_get_cache(cache, request)
    /\ cLast' = [NoOp EXCEPT !.op = "get", !.key = build_cache_key(request),
                 !.value = mem_get_result(cache, request),
                 !.after_set = IF cLast.op = "set" /\ cLast.key = build_cache_key(request)
                               THEN cLast.value ELSE None]
    /\ cRun' = [on |-> TRUE, keys |-> <<>>, base |-> Keys(cache')]
    /\ cAccess' = access_after(cAccess, Keys(cache'), build_cache_key(request))
    /\ UNCHANGED <<cache_type, max_size, redis>>
    /\ OnlyCache

MemoryLLMCache_set(request, response) ==
    /\ cache_type = "memory"
    /\ cache' = IF mem_set_raised(cache, max_size) = "none"
                THEN mem_set_cache(cache, max_size, request, response)
                ELSE cache
    /\ cLast' = [NoOp EXCEPT !.op = "set", !.key = build_cache_key(request),
                 !.value = response, !.raised = mem_set_raised(cache, max_size)]
    /\ cRun' = run_after_set(cRun, max_size, build_cache_key(request))
    /\ cAccess' = access_after(cAccess, Keys(cache'), build_cache_key(request))
    /\ UNCHANGED <<cache_type, max_size, redis>>
    /\ OnlyCache

MemoryLLMCache_delete(request) ==
    /\ cache_type = "memory"
    /\ cache' = mem_delete_cache(cache, request)
    /\ cLast' = [NoOp EXCEPT !.op = "delete", !.key = build_cache_key(request),
                 !.value = (build_cache_key(request) \in Keys(cache))]
    /\ cRun' = [on |-> TRUE, keys |-> <<>>, base |-> Keys(cache')]
    /\ cAccess' = access_after(cAccess, Keys(cache'), build_cache_key(request))
    /\ UNCHANGED <<cache_type, max_size, redis>>
    /\ OnlyCache

MemoryLLMCache_clear ==
    /\ cache_type = "memory"
    /\ cache' = <<>>
    /\ cLast' = [NoOp EXCEPT !.op = "clear"]
    /\ cRun' = FreshRun
    /\ cAccess' = <<>>
    /\ UNCHANGED <<cache_type, max_size, redis>>
    /\ OnlyCache

RedisLLMCache_get(request, failed) ==
    LET out == redis_get_outcome(redis, request, failed)
    IN  /\ cache_type = "redis"
        /\ cLast' = [op |-> "get", key |-> build_cache_key(request),
                     value |-> out.value,
                     after_set |-> IF /\ cLast.op = "set"
                                      /\ cLast.key = build_cache_key(request)
                                      /\ ~cLast.failed
                                   THEN cLast.value ELSE None,
                     failed |-> failed, raised |-> out.raised, before |-> redis]
        /\ UNCHANGED <<cache_type, max_size, cache, redis, cRun, cAccess>>
        /\ OnlyCache

RedisLLMCache_set(request, response, failed) ==
    LET out == redis_set_outcome(redis, request, response, failed)
    IN  /\ cache_type = "redis"
        /\ redis' = out.db
        /\ cLast' = [op |-> "set", key |-> build_cache_key(request),
                     value |-> response, after_set |-> None,
                     failed |-> failed, raised |-> out.raised, before |-> redis]
        /\ UNCHANGED <<cache_type, max_size, cache, cRun, cAccess>>
        /\ OnlyCache

RedisLLMCache_delete(request, failed) ==
    LET out == redis_delete_outcome(redis, request, failed)
    IN  /\ cache_type = "redis"
        /\ redis' = out.db
        /\ cLast' = [op |-> "delete", key |-> build_cache_key(request),
                     value |-> out.value, after_set |-> None,
                     failed |-> failed, raised |-> out.raised, before |-> redis]
        /\ UNCHANGED <<cache_type, max_size, cache, cRun, cAccess>>
        /\ OnlyCache

RedisLLMCache_clear(failed, deleted) ==
    LET out == redis_clear_outcome(redis, failed, deleted)
    IN  /\ cache_type = "redis"
        /\ redis' = out.db
        /\ cLast' = [op |-> "clear", key |-> None, value |-> None, after_set |-> None,
                     failed |-> failed, raised |-> out.raised, before |-> redis]
        /\ UNCHANGED <<cache_type, max_size, cache, cRun, cAccess>>
        /\ OnlyCache

\* an entry reaches its TTL
RedisExpire(key) ==
    /\ cache_type = "redis"
    /\ key \in RedisKeys(redis)
    /\ redis' = {e \in redis : e.key # key}
    /\ cLast' = [NoOp EXCEPT !.op = "expire", !.key = key]
    /\ UNCHANGED <<cache_type, max_size, cache, cRun, cAccess>>
    /\ OnlyCache

AllKeys == {build_cache_key(q) : q \in Requests}

NextCache ==
    \/ \E q \in Requests : MemoryLLMCache_get(q)
    \/ \E q \in Requests, r \in Responses : MemoryLLMCache_set(q, r)
    \/ \E q \in Requests : MemoryLLMCache_delete(q)
    \/ MemoryLLMCache_clear
    \/ \E q \in Requests, f \in BOOLEAN : RedisLLMCache_get(q, f)
    \/ \E q \in Requests, r \in Responses, f \in BOOLEAN : RedisLLMCache_set(q, r, f)
    \/ \E q \in Requests, f \in BOOLEAN : RedisLLMCache_delete(q, f)
    \/ \E f \in BOOLEAN, del \in SUBSET RedisKeys(redis) : RedisLLMCache_clear(f, del)
    \/ \E k \in AllKeys : RedisExpire(k)

(***************************************************************************)
(* LLMCache._build_cache_key over whole requests                           *)
(***************************************************************************)

\* Message
KeyMessages ==
    {[role |-> "user", content |-> "x"], [role |-> "user", content |-> "y"],
     [role |-> "system", content |-> "x"]}

\* list[Message], of one message at least
KeyMessageLists == UNION {[1..n -> KeyMessages] : n \in 1..MaxMsgs}

\* the fields of CompletionRequest, in the order of their declaration
RequestFields ==
    <<"model", "messages", "temperature", "max_tokens", "stop", "stream", "metadata">>

\* the orders in which a serialized request lists its fields: that of the
\* declaration and its reverse
FieldOrders ==
    {RequestFields, [i \in 1..Len(RequestFields) |-> RequestFields[Len(RequestFields) + 1 - i]]}

\* the values of the four fields the key is built from
KeyParts ==
    [model : {"a", "b"}, messages : KeyMessageLists, temperature : {0, 7},
     max_tokens : {1, 4096}]

\* the four fields of CompletionRequest(model="a", messages=messages)
DefaultParts(messages) ==
    [model |-> "a", messages |-> messages, temperature |-> 7, max_tokens |-> 4096]

\* the values of the fields the key leaves out (stop as the sequence of its
\* strings, empty for None; metadata as a set of pairs)
OtherParts ==
    [stop : {<<>>, <<"s">>}, stream : BOOLEAN, metadata : {{}, {<<"trace", "t">>}}]

\* a request serialized as the sequence of its fields and values, in order
serialize(key_part, other_part, order) ==
    [i \in 1..Len(order) |->
        <<order[i],
          IF order[i] \in DOMAIN key_part THEN key_part[order[i]] ELSE other_part[order[i]]>>]

\* CompletionRequest.model_validate: each field takes the value the document
\* gives it, wherever the document lists it
model_validate(doc) ==
    [name \in {RequestFields[i] : i \in 1..Len(RequestFields)} |->
        doc[CHOOSE i \in 1..Len(doc) : doc[i][1] = name][2]]

NoKey == [pc |-> "none", a |-> <<>>, b |-> <<>>, ka |-> None, kb |-> None, again |-> None]

InitKey == kc = NoKey

OnlyKey ==
    UNCHANGED <<rlVars, memVars, costVars, adVars, lmVars, clVars, hcVars, caVars, trVars, usVars, rtVars>>

\* _build_cache_key on two requests, and once more on the first
LLMCache_build_cache_key ==
    /\ kc.pc = "requests"
    /\ kc' = [kc EXCEPT !.pc = "keys",
                        !.ka = build_cache_key(model_validate(kc.a)),
                        !.kb = build_cache_key(model_validate(kc.b)),
                        !.again = build_cache_key(model_validate(kc.a))]
    /\ OnlyKey

NextKey == LLMCache_build_cache_key

(***************************************************************************)
(* CostTracker                                                             *)
(***************************************************************************)
Tasks == {"t1", "t2"}

\* sum(r.cost_usd for r in records if r.task_id == task_id), with the filter
\* on the model instead
get_task_cost_by_model(records, task_id) ==
    SeqSum([i \in 1..Len(records) |->
        IF records[i].model = (IF task_id = "t1" THEN "a" ELSE "b")
        THEN records[i].cost_usd ELSE 0])

\* get_task_cost(task_id)
get_task_cost(records, task_id) ==
    SeqSum([i \in 1..Len(records) |->
        IF records[i].task_id = task_id THEN records[i].cost_usd ELSE 0])

\* the cost get_summary() files under a model
model_cost(records, model) ==
    SeqSum([i \in 1..Len(records) |->
        IF records[i].model = model THEN records[i].cost_usd ELSE 0])

\* get_summary()
get_summary(records) ==
    [total_cost_usd |-> SeqSum([i \in 1..Len(records) |-> records[i].cost_usd]),
     total_tokens |-> SeqSum([i \in 1..Len(records) |->
                        records[i].prompt_tokens + records[i].completion_tokens]),
     call_count |-> Len(records),
     by_model |-> [m \in {records[i].model : i \in 1..Len(records)} |->
                        model_cost(records, m)],
     by_task |-> [t \in {records[i].task_id : i \in 1..Len(records)} |->
                        get_task_cost(records, t)]]

\* get_remaining_budget()
get_remaining_budget(budget, total) ==
    IF budget = None THEN None ELSE [usd |-> Max(0, budget.usd - total)]

\* is_budget_exceeded()
is_budget_exceeded(budget, total) ==
    IF budget = None THEN FALSE ELSE total > budget.usd

\* the truth value of self._budget: None and 0 are false
budget_truthy(budget) == budget # None /\ budget.usd # 0

InitCost(budget, callback) ==
    /\ ctBudget = budget
    /\ ctCallback = callback
    /\ ctRecords = <<>>
    /\ ctTotal = 0
    /\ ctCalls = 0
    /\ ctSpent = [t \in Tasks |-> 0]

OnlyCost == UNCHANGED <<kcVars, trVars, usVars, rtVars, rlVars, memVars, adVars, lmVars, clVars, hcVars, caVars>>

CostTracker_record(model, task_id, prompt_tokens, completion_tokens, cost_usd) ==
    LET record == [model |-> model, task_id |-> task_id,
                   prompt_tokens |-> prompt_tokens,
                   completion_tokens |-> completion_tokens, cost_usd |-> cost_usd]
        total == ctTotal + cost_usd
        calls == IF budget_truthy(ctBudget) /\ total > ctBudget.usd /\ ctCallback
                 THEN ctCalls + 1 ELSE ctCalls
    IN  /\ Len(ctRecords) < MaxRecords
        /\ calls <= MaxCalls
        /\ ctRecords' = Append(ctRecords, record)
        /\ ctTotal' = total
        /\ ctCalls' = calls
        /\ ctSpent' = [ctSpent EXCEPT ![task_id] = @ + cost_usd]
        /\ UNCHANGED <<ctBudget, ctCallback>>
        /\ OnlyCost

CostTracker_clear ==
    /\ ctRecords' = <<>>
    /\ ctTotal' = 0
    /\ ctSpent' = [t \in Tasks |-> 0]
    /\ UNCHANGED <<ctBudget, ctCallback, ctCalls>>
    /\ OnlyCost

NextCost ==
    \/ \E m \in Models, t \in Tasks, c \in 0..MaxCost : CostTracker_record(m, t, 1, 2, c)
    \/ CostTracker_clear

(***************************************************************************)
(* LiteLLMAdapter                                                          *)
(***************************************************************************)
\* the exceptions acompletion() raises: those of litellm.exceptions that the
\* adapter imports, and "Exception" for any other
ProviderErrors ==
    {"RateLimitError", "ServiceUnavailableError", "Timeout", "AuthenticationError",
     "ContextWindowExceededError", "ContentPolicyViolationError", "NotFoundError",
     "BadRequestError", "APIError", "APIConnectionError", "Exception"}

\* the classes an exception is an instance of: those of litellm.exceptions,
\* and asyncio.CancelledError, which is a BaseException and not an Exception
Bases(error) ==
    IF error \in {"ContextWindowExceededError", "ContentPolicyViolationError"}
    THEN {error, "BadRequestError", "Exception"}
    ELSE IF error = "CancelledError"
    THEN {error, "BaseException"}
    ELSE {error, "Exception"}

isinstance(error, classes) == Bases(error) \cap classes # {}

\* retry_if_exception_type with Timeout among the retried classes
retry_if_exception_type_timeout(error) ==
    isinstance(error, {"RateLimitError", "ServiceUnavailableError", "Timeout"})

\* retry_if_exception_type((RateLimitError, ServiceUnavailableError))
retry_if_exception_type(error) ==
    isinstance(error, {"RateLimitError", "ServiceUnavailableError"})

\* _handle_error with the BadRequestError test ahead of its subclasses
handle_error_bad_request_first(error) ==
    IF isinstance(error, {"RateLimitError"}) THEN "LLMRateLimitError"
    ELSE IF isinstance(error, {"Timeout"}) THEN "LLMTimeoutError"
    ELSE IF isinstance(error, {"AuthenticationError"}) THEN "LLMAuthenticationError"
    ELSE IF isinstance(error, {"BadRequestError"}) THEN "LLMInvalidRequestError"
    ELSE IF isinstance(error, {"ContextWindowExceededError"}) THEN "LLMContextLengthError"
    ELSE IF isinstance(error, {"ContentPolicyViolationError"}) THEN "LLMContentFilterError"
    ELSE IF isinstance(error, {"NotFoundError"}) THEN "LLMModelNotAvailableError"
    ELSE IF isinstance(error, {"APIError", "APIConnectionError"}) THEN "LLMProviderError"
    ELSE "LLMError"

\* _handle_error: the exception it raises
handle_error(error) ==
    IF isinstance(error, {"RateLimitError"}) THEN "LLMRateLimitError"
    ELSE IF isinstance(error, {"Timeout"}) THEN "LLMTimeoutError"
    ELSE IF isinstance(error, {"AuthenticationError"}) THEN "LLMAuthenticationError"
    ELSE IF isinstance(error, {"ContextWindowExceededError"}) THEN "LLMContextLengthError"
    ELSE IF isinstance(error, {"ContentPolicyViolationError"}) THEN "LLMContentFilterError"
    ELSE IF isinstance(error, {"NotFoundError"}) THEN "LLMModelNotAvailableError"
    ELSE IF isinstance(error, {"BadRequestError"}) THEN "LLMInvalidRequestError"
    ELSE IF isinstance(error, {"APIError", "APIConnectionError"}) THEN "LLMProviderError"
    ELSE "LLMError"

\* what one acompletion() call gives: a response ("null": content None) or an error
ProviderOutcomes ==
    [ok : {TRUE}, content : {"x", "null"}, error : {""}]
        \cup [ok : {FALSE}, content : {""}, error : ProviderErrors]

\* _parse_response
parse_response(response, model) ==
    [content |-> IF response.content = "null" THEN "" ELSE response.content,
     model |-> model, prompt_tokens |-> 1, completion_tokens |-> 2, total_tokens |-> 3,
     finish_reason |-> "stop", latency_ms |-> 5, cost_usd |-> 4]

\* the test of complete() on what cache.get() returned, never true
cache_hit_never(cached) == FALSE

\* if cached:
cache_hit(cached) == cached # None

\* the requests the adapter is called with
AdapterRequests == {r \in Requests : r.messages <= 2}

NoCall ==
    [op |-> "none", request |-> None, pc |-> "done", outcomes |-> <<>>,
     held |-> None, sets |-> 0, mappings |-> 0, chunks |-> <<>>, yielded |-> <<>>,
     result |-> None,
     get_raised |-> FALSE, set_raised |-> FALSE, before |-> None, trace |-> <<>>]

\* a call at its start: held is what the cache has for the request, before
\* the entries of the cache
NewCall(op, request) ==
    [NoCall EXCEPT !.op = op, !.request = request, !.pc = "provider",
                   !.before = cache,
                   !.held = IF adHasCache /\ build_cache_key(request) \in Keys(cache)
                            THEN ValueOf(cache, build_cache_key(request)) ELSE None]

Raised(error) == [raised |-> error]

\* whether a call of the cache raises: LLMCache is an interface, and of its
\* two implementations RedisLLMCache lets through what is not a RedisError
CacheFaults == IF adCacheRaises THEN BOOLEAN ELSE {FALSE}

InitAdapter(max_retries, has_cache, cache_raises) ==
    /\ adMaxRetries = max_retries
    /\ adHasCache = has_cache
    /\ adCacheRaises = cache_raises
    /\ adCall = NoCall

OnlyAdapter ==
    UNCHANGED <<kcVars, trVars, usVars, rtVars, rlVars, costVars, lmVars, clVars, hcVars, caVars, cache_type, max_size,
                redis, cLast, cRun, cAccess>>

\* complete() up to its provider call: the cache lookup
LiteLLMAdapter_complete(request) ==
    \E get_raises \in CacheFaults :
    LET call == NewCall("complete", request)
        cached == mem_get_result(cache, request)
        answer == [cached EXCEPT !.latency_ms = HitLatency]
    IN  /\ adCall.pc = "done"
        /\ get_raises => adHasCache /\ ~request.stream
        /\ IF adHasCache /\ ~request.stream
           THEN IF get_raises
                \* the lookup is outside the try block: the exception leaves complete()
                THEN /\ adCall' = [call EXCEPT !.pc = "done", !.get_raised = TRUE,
                                               !.trace = <<"cache.get", "raise">>,
                                               !.result = Raised("CacheError")]
                     /\ cache' = cache
                ELSE IF cache_hit(cached)
                THEN /\ adCall' = [call EXCEPT !.pc = "done", !.result = answer,
                                               !.trace = <<"cache.get", "return">>]
                     \* the object returned is the object stored
                     /\ cache' = setitem(mem_get_cache(cache, request),
                                         build_cache_key(request), answer)
                ELSE /\ adCall' = [call EXCEPT !.trace = <<"cache.get">>]
                     /\ cache' = mem_get_cache(cache, request)
           ELSE /\ adCall' = call
                /\ cache' = cache
        /\ UNCHANGED <<adMaxRetries, adHasCache, adCacheRaises>>
        /\ OnlyAdapter

\* complete_with_tools() up to its provider call
LiteLLMAdapter_complete_with_tools(request) ==
    /\ adCall.pc = "done"
    /\ adCall' = NewCall("complete_with_tools", request)
    /\ UNCHANGED <<adMaxRetries, adHasCache, adCacheRaises, cache>>
    /\ OnlyAdapter

\* stream_complete() up to its provider call
LiteLLMAdapter_stream_complete(request) ==
    /\ adCall.pc = "done"
    /\ adCall' = NewCall("stream_complete", request)
    /\ UNCHANGED <<adMaxRetries, adHasCache, adCacheRaises, cache>>
    /\ OnlyAdapter

\* what complete() does from a provider call that succeeds, with the cache
\* written before the provider is called
effects_of_success_write_first(write) ==
    IF write THEN <<"cache.set", "provider", "return">> ELSE <<"provider", "return">>

\* what complete() does from a provider call that succeeds, in order
effects_of_success(write) ==
    IF write THEN <<"provider", "cache.set", "return">> ELSE <<"provider", "return">>

\* one attempt of _execute_with_retry and, when it is the last, the rest of
\* complete() or complete_with_tools()
LiteLLMAdapter_execute_with_retry(outcome) ==
    \E set_raises \in CacheFaults :
    LET outcomes == Append(adCall.outcomes, outcome)
        result == parse_response(outcome, adCall.request.model)
        write == adCall.op = "complete" /\ adHasCache
    IN  /\ adCall.pc = "provider"
        /\ adCall.op \in {"complete", "complete_with_tools"}
        /\ set_raises => outcome.ok /\ write
        /\ IF outcome.ok
           THEN IF set_raises
                \* the write is inside the try block: except Exception maps its error
                THEN /\ adCall' = [adCall EXCEPT !.outcomes = outcomes, !.pc = "done",
                                                 !.sets = @ + 1, !.set_raised = TRUE,
                                                 !.mappings = @ + 1,
                                                 !.trace = @ \o <<"provider", "cache.set", "raise">>,
                                                 !.result = Raised(handle_error("Exception"))]
                     /\ cache' = cache
                ELSE /\ adCall' = [adCall EXCEPT !.outcomes = outcomes, !.pc = "done",
                                                 !.result = result,
                                                 !.trace = @ \o effects_of_success(write),
                                                 !.sets = IF write THEN @ + 1 ELSE @]
                     /\ cache' = IF write
                                 THEN mem_set_cache(cache, max_size, adCall.request, result)
                                 ELSE cache
           ELSE /\ cache' = cache
                /\ IF retry_if_exception_type(outcome.error)
                      /\ Len(outcomes) < StopAfterAttempt
                   THEN adCall' = [adCall EXCEPT !.outcomes = outcomes,
                                                 !.trace = Append(@, "provider")]
                   ELSE adCall' = [adCall EXCEPT !.outcomes = outcomes, !.pc = "done",
                                                 !.mappings = @ + 1,
                                                 !.trace = @ \o <<"provider", "raise">>,
                                                 !.result = Raised(handle_error(outcome.error))]
        /\ UNCHANGED <<adMaxRetries, adHasCache, adCacheRaises>>
        /\ OnlyAdapter

\* the chunks of a provider's stream, by the content of their delta: text,
\* "" for no content, "nochoices" for a chunk without choices
StreamChunks == {"a", "b", "", "nochoices"}
ProviderStreams == UNION {[1..n -> StreamChunks] : n \in 0..MaxChunks}

\* the chunks stream_complete() yields when it stops at a chunk without content
stream_yield_until_empty(chunks) ==
    IF \E i \in 1..Len(chunks) : chunks[i] \in {"", "nochoices"}
    THEN SubSeq(chunks, 1, (CHOOSE i \in 1..Len(chunks) :
                                /\ chunks[i] \in {"", "nochoices"}
                                /\ \A j \in 1..(i - 1) : chunks[j] \notin {"", "nochoices"}) - 1)
    ELSE chunks

\* the chunks stream_complete() yields: those with choices and content
stream_yield(chunks) ==
    SelectSeq(chunks, LAMBDA c : c # "nochoices" /\ c # "")

\* the provider call of stream_complete() and its loop over the stream: the
\* chunks arrive, and the stream ends or an error comes, at the call (no
\* chunk) or after chunks
LiteLLMAdapter_stream_acompletion(outcome, chunks) ==
    /\ adCall.pc = "provider"
    /\ adCall.op = "stream_complete"
    /\ adCall' = [adCall EXCEPT
            !.outcomes = Append(@, outcome), !.pc = "done", !.chunks = chunks,
            !.yielded = stream_yield(chunks),
            !.mappings = IF outcome.ok THEN @ ELSE @ + 1,
            !.result = IF outcome.ok THEN [content |-> outcome.content]
                       ELSE Raised(handle_error(outcome.error))]
    /\ UNCHANGED <<adMaxRetries, adHasCache, adCacheRaises, cache>>
    /\ OnlyAdapter

\* what a cancelled call has put in the cache: the response of the provider
\* it was waiting for
cache_after_cancel_written(c, k, request) ==
    mem_set_cache(c, k, request, parse_response([ok |-> TRUE, content |-> "x", error |-> ""],
                                                request.model))

\* what a cancelled call has put in the cache: nothing
cache_after_cancel(c, k, request) == c

\* the caller cancels the task while _execute_with_retry awaits the provider
\* or the wait before a retry: CancelledError, which is not an Exception,
\* passes through tenacity and through the except clause of the call
LiteLLMAdapter_cancel ==
    /\ adCall.pc = "provider"
    /\ adCall.op \in {"complete", "complete_with_tools"}
    /\ adCall' = [adCall EXCEPT !.pc = "done", !.result = Raised("CancelledError"),
                                !.trace = Append(@, "raise")]
    /\ cache' = cache_after_cancel(cache, max_size, adCall.request)
    /\ UNCHANGED <<adMaxRetries, adHasCache, adCacheRaises>>
    /\ OnlyAdapter

NextAdapter ==
    \/ \E request \in AdapterRequests : LiteLLMAdapter_complete(request)
    \/ \E request \in AdapterRequests : LiteLLMAdapter_complete_with_tools(request)
    \/ \E request \in AdapterRequests : LiteLLMAdapter_stream_complete(request)
    \/ \E outcome \in ProviderOutcomes : LiteLLMAdapter_execute_with_retry(outcome)
    \/ \E outcome \in ProviderOutcomes, chunks \in ProviderStreams :
            LiteLLMAdapter_stream_acompletion(outcome, chunks)

(***************************************************************************)
(* The usage of an emitted CompletionResponse                              *)
(***************************************************************************)

\* response.usage of a provider response: the two counts and the total the
\* provider reports, which may be absent (has_total FALSE: None)
ProviderUsages ==
    [prompt_tokens : 0..MaxUsage, completion_tokens : 0..MaxUsage,
     total_tokens : 0..(2 * MaxUsage), has_total : {TRUE}]
        \cup [prompt_tokens : 0..MaxUsage, completion_tokens : 0..MaxUsage,
              total_tokens : {0}, has_total : {FALSE}]

\* UsageInfo(prompt_tokens=..., completion_tokens=..., total_tokens=response.usage.total_tokens)
usage_info(usage) ==
    [prompt_tokens |-> usage.prompt_tokens, completion_tokens |-> usage.completion_tokens,
     total_tokens |-> usage.total_tokens]

\* whether pydantic accepts the three values: total_tokens is an int, not None
usage_valid(usage) == usage.has_total

NoUsage ==
    [op |-> "none", provider |-> [prompt_tokens |-> 0, completion_tokens |-> 0,
                                  total_tokens |-> 0, has_total |-> TRUE],
     emitted |-> FALSE,
     usage |-> [prompt_tokens |-> 0, completion_tokens |-> 0, total_tokens |-> 0],
     raised |-> "none"]

InitUsage == us = NoUsage

OnlyUsage ==
    UNCHANGED <<rlVars, memVars, costVars, adVars, lmVars, clVars, hcVars, caVars, kcVars,
                trVars, rtVars>>

\* complete() from the provider's response on: _parse_response inside the try
\* block, whose except clause maps a validation error with _handle_error
LiteLLMAdapter_parse_response(usage) ==
    /\ us' = IF usage_valid(usage)
             THEN [NoUsage EXCEPT !.op = "adapter", !.provider = usage, !.emitted = TRUE,
                                  !.usage = usage_info(usage)]
             ELSE [NoUsage EXCEPT !.op = "adapter", !.provider = usage,
                                  !.raised = handle_error("ValidationError")]
    /\ OnlyUsage

\* LLMRouter.complete() from the provider's response on: any exception of the
\* try block becomes LLMError
LLMRouter_complete(usage) ==
    /\ us' = IF usage_valid(usage)
             THEN [NoUsage EXCEPT !.op = "router", !.provider = usage, !.emitted = TRUE,
                                  !.usage = usage_info(usage)]
             ELSE [NoUsage EXCEPT !.op = "router", !.provider = usage, !.raised = "LLMError"]
    /\ OnlyUsage

NextUsage ==
    \/ \E usage \in ProviderUsages : LiteLLMAdapter_parse_response(usage)
    \/ \E usage \in ProviderUsages : LLMRouter_complete(usage)

(***************************************************************************)
(* LLMTracer                                                               *)
(***************************************************************************)

\* what the body of the async with block can raise: the errors of the adapter
BodyErrors == {handle_error(e) : e \in ProviderErrors}

\* the span of one traced call: its attributes, its status, the exception
\* recorded on it, whether end() was called, how the body ended and what left
\* the context manager
NoSpan ==
    [pc |-> "none", op |-> "none", request |-> None, stream |-> FALSE, response |-> FALSE,
     status |-> "unset", exception |-> "none", ended |-> FALSE, outcome |-> "none",
     propagated |-> "none"]

InitTracer == tr = NoSpan

OnlyTracer ==
    UNCHANGED <<rlVars, memVars, costVars, adVars, lmVars, clVars, hcVars, caVars, kcVars,
                usVars, rtVars>>

\* except Exception as e: span.set_status(Status(StatusCode.ERROR, str(e)))
status_after_exception(status, error) ==
    IF isinstance(error, {"Exception"}) THEN "error" ELSE status

\* async with tracer.trace_completion(request): the span is started and the
\* request attributes are set
LLMTracer_trace_completion(request) ==
    /\ tr.pc # "body"
    /\ tr' = [NoSpan EXCEPT !.pc = "body", !.op = "trace_completion", !.request = request]
    /\ OnlyTracer

\* async with tracer.trace_stream_completion(request): as above, with the
\* attribute llm.stream
LLMTracer_trace_stream_completion(request) ==
    /\ tr.pc # "body"
    /\ tr' = [NoSpan EXCEPT !.pc = "body", !.op = "trace_stream_completion",
                            !.request = request, !.stream = TRUE]
    /\ OnlyTracer

\* record_response(span, response) in the body
LLMTracer_record_response ==
    /\ tr.pc = "body"
    /\ ~tr.response
    /\ tr' = [tr EXCEPT !.response = TRUE]
    /\ OnlyTracer

\* the body ends normally: the with statement ends the span
TraceBodyReturns ==
    /\ tr.pc = "body"
    /\ tr' = [tr EXCEPT !.pc = "closed", !.ended = TRUE, !.outcome = "return"]
    /\ OnlyTracer

\* the body raises an Exception: the except clause sets the status, records
\* the exception and raises it again, and the with statement ends the span
TraceBodyRaises(error) ==
    /\ tr.pc = "body"
    /\ tr' = [tr EXCEPT !.pc = "closed", !.ended = TRUE, !.outcome = error,
                        !.status = status_after_exception(@, error),
                        !.exception = IF isinstance(error, {"Exception"}) THEN error ELSE @,
                        !.propagated = error]
    /\ OnlyTracer

\* the task is cancelled in the body: CancelledError is a BaseException, which
\* the except clause does not catch; the with statement of
\* start_as_current_span ends the span, and whether it sets the status for an
\* exception that is not an Exception depends on the OpenTelemetry release
TraceBodyCancelled(library_sets_status) ==
    /\ tr.pc = "body"
    /\ tr' = [tr EXCEPT !.pc = "closed", !.ended = TRUE, !.outcome = "CancelledError",
                        !.status = IF library_sets_status THEN "error"
                                   ELSE status_after_exception(@, "CancelledError"),
                        !.exception = IF library_sets_status THEN "CancelledError" ELSE @,
                        !.propagated = "CancelledError"]
    /\ OnlyTracer

NextTracer ==
    \/ \E request \in AdapterRequests : LLMTracer_trace_completion(request)
    \/ \E request \in AdapterRequests : LLMTracer_trace_stream_completion(request)
    \/ LLMTracer_record_response
    \/ TraceBodyReturns
    \/ \E error \in BodyErrors : TraceBodyRaises(error)
    \/ \E library_sets_status \in BOOLEAN : TraceBodyCancelled(library_sets_status)

(***************************************************************************)
(* LLMRouter: the configuration _create_router hands to litellm's Router,  *)
(* and complete() around Router.acompletion                                *)
(***************************************************************************)

Providers == {"openai", "anthropic", "deepseek"}

\* ModelRegistry.BUILTIN_MODELS, in their order
BuiltinModels ==
    <<[model_id |-> "gpt-4", provider |-> "openai"],
      [model_id |-> "gpt-4-turbo", provider |-> "openai"],
      [model_id |-> "gpt-3.5-turbo", provider |-> "openai"],
      [model_id |-> "claude-3-opus", provider |-> "anthropic"],
      [model_id |-> "claude-3-sonnet", provider |-> "anthropic"],
      [model_id |-> "claude-3-haiku", provider |-> "anthropic"],
      [model_id |-> "deepseek-chat", provider |-> "deepseek"]>>

RouterModels == {BuiltinModels[i].model_id : i \in 1..Len(BuiltinModels)}

\* ModelRegistry.list_by_provider
list_by_provider(provider) == SelectSeq(BuiltinModels, LAMBDA m : m.provider = provider)

\* the entries _build_model_list appends for a provider whose API key is set
provider_entries(keys, provider) ==
    IF provider \in keys
    THEN [i \in 1..Len(list_by_provider(provider)) |->
            [model_name |-> list_by_provider(provider)[i].model_id, provider |-> provider]]
    ELSE <<>>

\* _build_model_list, for the set of providers whose API key is set
build_model_list(keys) ==
    provider_entries(keys, "openai") \o provider_entries(keys, "anthropic")
        \o provider_entries(keys, "deepseek")

\* the values of settings.fallback_models: lists of model names, registered
\* or not (the default names claude-3-haiku-20240307, which is not)
FallbackNames == {"gpt-4", "gpt-3.5-turbo", "claude-3-haiku", "claude-3-haiku-20240307"}

FallbackLists == UNION {[1..n -> FallbackNames] : n \in 0..MaxFallbacks}

\* a fallback entry for every model of the list
create_fallbacks_for_all(model_list, fallback_models) ==
    [i \in 1..Len(model_list) |->
        [model |-> model_list[i].model_name, chain |-> fallback_models]]

\* the entries of `fallbacks` in _create_router, when fallback_models is not
\* empty: one for each model of the list that is not a fallback model itself
create_fallbacks(model_list, fallback_models) ==
    LET names == {fallback_models[i] : i \in 1..Len(fallback_models)}
        kept == SelectSeq(model_list, LAMBDA e : e.model_name \notin names)
    IN  [i \in 1..Len(kept) |-> [model |-> kept[i].model_name, chain |-> fallback_models]]

\* the exception complete() raises when Router.acompletion raised
router_error(error) == [kind |-> "LLMError", cause |-> error]

NoRouter ==
    [pc |-> "none", keys |-> {}, fallback_models |-> <<>>, model_list |-> <<>>,
     has_fallbacks |-> FALSE, fallbacks |-> <<>>, op |-> "none", model |-> "none",
     error |-> "none", returned |-> FALSE, raised |-> [kind |-> "none", cause |-> "none"]]

InitRouter == rt = NoRouter

OnlyRouter ==
    UNCHANGED <<rlVars, memVars, costVars, adVars, lmVars, clVars, hcVars, caVars, kcVars,
                trVars, usVars>>

\* LLMRouter.__init__: self._router = self._create_router()
LLMRouter_create_router ==
    /\ rt.pc = "settings"
    /\ rt' = [rt EXCEPT !.pc = "ready",
                        !.model_list = build_model_list(rt.keys),
                        !.has_fallbacks = rt.fallback_models # <<>>,
                        !.fallbacks = IF rt.fallback_models # <<>>
                                      THEN create_fallbacks(build_model_list(rt.keys),
                                                            rt.fallback_models)
                                      ELSE <<>>]
    /\ OnlyRouter

\* complete() when Router.acompletion returns a response
LLMRouter_complete_returns(model) ==
    /\ rt.pc = "ready"
    /\ rt' = [rt EXCEPT !.op = "complete", !.model = model, !.error = "none",
                        !.returned = TRUE, !.raised = NoRouter.raised]
    /\ OnlyRouter

\* complete() when Router.acompletion raises, every option having failed:
\* raise LLMError(...) from e
LLMRouter_complete_raises(model, error) ==
    /\ rt.pc = "ready"
    /\ rt' = [rt EXCEPT !.op = "complete", !.model = model, !.error = error,
                        !.returned = FALSE, !.raised = router_error(error)]
    /\ OnlyRouter

NextRouter ==
    \/ LLMRouter_create_router
    \/ \E model \in RouterModels : LLMRouter_complete_returns(model)
    \/ \E model \in RouterModels, error \in ProviderErrors :
          LLMRouter_complete_raises(model, error)

(***************************************************************************)
(* LLMHealthChecker. A probe answers at the time it was issued: latency_ms *)
(* and check_duration_ms, the durations the checker measures, are left     *)
(* out of the records. check_all() is given at most concurrent_limit       *)
(* models, none of them twice, so that every check_model() it starts reads *)
(* the clock before any probe is issued.                                   *)
(***************************************************************************)
HealthModels == {"m1", "m2", "m3"}

\* the probes of one check_model(): max_retries + 1 attempts
Attempts == HealthMaxRetries + 1

\* the lists of models check_all() is called with: none, one, two and three
\* models
ModelLists == {SubSeq(<<"m1", "m2", "m3">>, 1, n) : n \in 0..3}

\* whether check_model() answers from the cache, at the bound of the TTL too
health_cache_hit_at_ttl(hc, model, force, t) ==
    /\ ~force
    /\ hc[model] # None
    /\ t - hc[model].last_check <= CacheTtl

\* whether check_model() answers from the cache
health_cache_hit(hc, model, force, t) ==
    /\ ~force
    /\ hc[model] # None
    /\ t - hc[model].last_check < CacheTtl

\* how many of the attempts of a check_model() raise, from the first on:
\* none for a model that is not probed
ProbeFailures(hc, model, force, t, listed) ==
    IF model \in listed /\ ~health_cache_hit(hc, model, force, t)
    THEN 0..Attempts ELSE {0}

\* the ModelHealth the probing loop builds when the first `fails` attempts
\* raise: a response ends the loop, and the last attempt's failure marks the
\* model unhealthy
probe_health(model, fails, t) ==
    IF fails < Attempts
    THEN [model |-> model, status |-> "healthy", error |-> "none", last_check |-> t,
          consecutive_failures |-> 0]
    ELSE [model |-> model, status |-> "unhealthy", error |-> "error", last_check |-> t,
          consecutive_failures |-> Attempts]

\* the probes that loop issues
probes_issued(fails) == IF fails < Attempts THEN fails + 1 ELSE Attempts

\* check_model(): the record returned and the probes issued
check_model_result(hc, model, force, fails, t) ==
    IF health_cache_hit(hc, model, force, t)
    THEN [health |-> hc[model], probes |-> 0]
    ELSE [health |-> probe_health(model, fails, t), probes |-> probes_issued(fails)]

\* the overall status, asking for a healthy model first
status_of_counts_degraded_first(healthy_count, total_count) ==
    IF healthy_count > 0 THEN "degraded"
    ELSE IF healthy_count = total_count THEN "healthy"
    ELSE "unhealthy"

\* the overall status of check_all()
status_of_counts(healthy_count, total_count) ==
    IF healthy_count = total_count THEN "healthy"
    ELSE IF healthy_count > 0 THEN "degraded"
    ELSE "unhealthy"

\* check_all(): fails[m] attempts of the probes of model m raise
check_all_result(hc, models, force, fails, t) ==
    IF models = <<>>
    THEN [overall_status |-> "unknown", models |-> <<>>, healthy_count |-> 0,
          total_count |-> 0]
    ELSE LET results == [i \in 1..Len(models) |->
                            check_model_result(hc, models[i], force, fails[models[i]], t).health]
             model_health == [m \in {results[i].model : i \in 1..Len(results)} |->
                                results[CHOOSE i \in 1..Len(results) :
                                    /\ results[i].model = m
                                    /\ \A j \in (i + 1)..Len(results) : results[j].model # m]]
             healthy_count == Cardinality({i \in 1..Len(results) : results[i].status = "healthy"})
             total_count == Len(results)
         IN  [overall_status |-> status_of_counts(healthy_count, total_count),
              models |-> model_health,
              healthy_count |-> healthy_count,
              total_count |-> total_count]

NoHealthOp ==
    [op |-> "none", models |-> <<>>, force |-> FALSE, at |-> 0,
     probes |-> [m \in HealthModels |-> 0], result |-> None, outcomes |-> <<>>]

InitHealth ==
    /\ hcCache = [m \in HealthModels |-> None]
    /\ hcLast = NoHealthOp

OnlyHealth ==
    UNCHANGED <<kcVars, trVars, usVars, rtVars, now, rlData, rlLast, rlScript, memVars, costVars, adVars, lmVars, clVars,
                caVars>>

LLMHealthChecker_check_model(model, force) ==
    \E fails \in ProbeFailures(hcCache, model, force, now, {model}) :
    LET r == check_model_result(hcCache, model, force, fails, now)
    IN  /\ hcCache' = [hcCache EXCEPT ![model] = r.health]
        /\ hcLast' = [op |-> "check_model", models |-> <<model>>, force |-> force, at |-> now,
                      probes |-> [m \in HealthModels |-> IF m = model THEN r.probes ELSE 0],
                      result |-> r.health, outcomes |-> <<>>]
        /\ OnlyHealth

LLMHealthChecker_check_all(models, force) ==
    LET listed == {models[i] : i \in 1..Len(models)} IN
    \E fails \in {f \in [HealthModels -> 0..Attempts] :
                    \A m \in HealthModels : f[m] \in ProbeFailures(hcCache, m, force, now, listed)} :
    LET res(m) == check_model_result(hcCache, m, force, fails[m], now)
    IN  /\ hcCache' = [m \in HealthModels |-> IF m \in listed THEN res(m).health ELSE hcCache[m]]
        /\ hcLast' = [op |-> "check_all", models |-> models, force |-> force, at |-> now,
                      probes |-> [m \in HealthModels |-> IF m \in listed THEN res(m).probes ELSE 0],
                      result |-> check_all_result(hcCache, models, force, fails, now),
                      outcomes |-> <<>>]
        /\ OnlyHealth

LLMHealthChecker_clear_cache ==
    /\ hcCache' = [m \in HealthModels |-> None]
    /\ hcLast' = [NoHealthOp EXCEPT !.op = "clear_cache", !.at = now]
    /\ OnlyHealth

NextHealth ==
    \/ \E m \in HealthModels, force \in BOOLEAN : LLMHealthChecker_check_model(m, force)
    \/ \E l \in ModelLists, force \in BOOLEAN : LLMHealthChecker_check_all(l, force)
    \/ LLMHealthChecker_clear_cache
    \/ \E d \in {CacheTtl \div 2, CacheTtl, CacheTtl + 1} : Tick(d)

(***************************************************************************)
(* check_model() attempt by attempt, over a provider whose acompletion()   *)
(* raises, returns a response, or returns an empty (falsy) response        *)
(***************************************************************************)

\* what one probe gives: a response, a falsy response, or one of two errors
AttemptOutcomes == {"response", "empty", "error1", "error2"}

\* the outcomes of the attempts of one check_model(), were all of them made
ProbeOutcomes == [1..Attempts -> AttemptOutcomes]

\* ModelHealth(model=model, last_check=time.time())
new_health(model, t) ==
    [model |-> model, status |-> "unknown", error |-> "none", last_check |-> t,
     consecutive_failures |-> 0]

\* the body of `if response:` that leaves the failures counted so far
after_response_keeping_failures(health) ==
    [health EXCEPT !.status = "healthy"]

\* the body of `if response:`
after_response(health) ==
    [health EXCEPT !.status = "healthy", !.error = "none", !.consecutive_failures = 0]

\* the except clause of attempt number `attempt` (from 0)
after_exception(health, error, attempt) ==
    LET counted == [health EXCEPT !.error = error, !.consecutive_failures = @ + 1]
    IN  IF attempt < HealthMaxRetries THEN counted
        ELSE [counted EXCEPT !.status = "unhealthy"]

\* for attempt in range(max_retries + 1): the record and the probes issued
RECURSIVE probe_loop(_, _, _)
probe_loop(health, outcomes, attempt) ==
    IF attempt > HealthMaxRetries
    THEN [health |-> health, probes |-> attempt]
    ELSE IF outcomes[attempt + 1] = "response"
    THEN [health |-> after_response(health), probes |-> attempt + 1]
    ELSE IF outcomes[attempt + 1] = "empty"
    THEN probe_loop(health, outcomes, attempt + 1)
    ELSE probe_loop(after_exception(health, outcomes[attempt + 1], attempt),
                    outcomes, attempt + 1)

\* check_model() over these outcomes
LLMHealthChecker_check_model_attempts(model, force, outcomes) ==
    LET hit == health_cache_hit(hcCache, model, force, now)
        run == probe_loop(new_health(model, now), outcomes, 0)
        health == IF hit THEN hcCache[model] ELSE run.health
    IN  /\ hit => outcomes = [i \in 1..Attempts |-> "response"]
        /\ hcCache' = [hcCache EXCEPT ![model] = health]
        /\ hcLast' = [op |-> "check_model", models |-> <<model>>, force |-> force, at |-> now,
                      probes |-> [m \in HealthModels |->
                                     IF m = model /\ ~hit THEN run.probes ELSE 0],
                      result |-> health,
                      outcomes |-> IF hit THEN <<>> ELSE outcomes]
        /\ OnlyHealth

NextProbe ==
    \/ \E m \in HealthModels, force \in BOOLEAN, outcomes \in ProbeOutcomes :
          LLMHealthChecker_check_model_attempts(m, force, outcomes)
    \/ LLMHealthChecker_clear_cache

(***************************************************************************)
(* check_all() as the event loop runs it: gather() starts one              *)
(* check_with_semaphore() task per listed model, in the order of the list; *)
(* a task runs until it awaits: the semaphore when no permit is free, the  *)
(* answer of a probe, the sleep before a retry.                            *)
(***************************************************************************)
\* the lists check_all() is called with here, as long as there are models: a
\* model can be listed twice
TaskIds == 1..Cardinality(HealthModels)
TaskLists == UNION {[1..n -> HealthModels] : n \in 0..Cardinality(HealthModels)}

NoCheckAll == [pc |-> "idle", force |-> FALSE, limit |-> 0, value |-> 0, tasks |-> <<>>]

InitCheckAll == ca = NoCheckAll

OnlyCheckAll ==
    UNCHANGED <<kcVars, trVars, usVars, rtVars, now, rlData, rlLast, rlScript, memVars, costVars, adVars, lmVars, clVars>>

\* acquire() of a semaphore that hands out permits it does not have
semaphore_free_always(value) == TRUE

\* asyncio.Semaphore.acquire() returns at once when the value is above zero
semaphore_free(value) == value > 0

\* what check_all() returns for the records its tasks returned
gather_result(results) ==
    LET model_health == [m \in {results[i].model : i \in 1..Len(results)} |->
                            results[CHOOSE i \in 1..Len(results) :
                                /\ results[i].model = m
                                /\ \A j \in (i + 1)..Len(results) : results[j].model # m]]
        healthy_count == Cardinality({i \in 1..Len(results) : results[i].status = "healthy"})
        total_count == Len(results)
    IN  [overall_status |-> status_of_counts(healthy_count, total_count),
         models |-> model_health,
         healthy_count |-> healthy_count,
         total_count |-> total_count]

\* check_all() up to gather(): the semaphore and the tasks
check_all_gather(models, force, concurrent_limit) ==
    /\ ca.pc = "idle"
    /\ IF models = <<>>
       THEN /\ ca' = [ca EXCEPT !.pc = "returned", !.force = force, !.limit = concurrent_limit]
            /\ hcLast' = [op |-> "check_all", models |-> models, force |-> force, at |-> now,
                          probes |-> [m \in HealthModels |-> 0],
                          result |-> [overall_status |-> "unknown", models |-> <<>>,
                                      healthy_count |-> 0, total_count |-> 0]]
       ELSE /\ ca' = [pc |-> "running", force |-> force, limit |-> concurrent_limit,
                      value |-> concurrent_limit,
                      tasks |-> [i \in 1..Len(models) |->
                                    [model |-> models[i], pc |-> "queued", attempt |-> 0,
                                     probes |-> 0, health |-> None]]]
            /\ hcLast' = hcLast
    /\ hcCache' = hcCache
    /\ OnlyCheckAll

\* task i gets a permit, the tasks before it in the list first, and runs
\* check_model() up to its first probe, or to its end when the cache answers
check_with_semaphore(i) ==
    LET task == ca.tasks[i]
    IN  /\ ca.pc = "running"
        /\ i <= Len(ca.tasks)
        /\ task.pc = "queued"
        /\ \A j \in 1..(i - 1) : ca.tasks[j].pc # "queued"
        /\ semaphore_free(ca.value)
        /\ IF health_cache_hit(hcCache, task.model, ca.force, now)
           THEN ca' = [ca EXCEPT !.tasks[i].pc = "done",
                                 !.tasks[i].health = hcCache[task.model]]
           ELSE ca' = [ca EXCEPT !.value = @ - 1,
                                 !.tasks[i].pc = "probing",
                                 !.tasks[i].health =
                                    [model |-> task.model, status |-> "unknown",
                                     error |-> "none", last_check |-> now,
                                     consecutive_failures |-> 0]]
        /\ UNCHANGED <<hcCache, hcLast>>
        /\ OnlyCheckAll

\* the probe of task i answers or raises; after the last attempt, or after a
\* response, the record goes to the cache and the permit is released
check_model_attempt(i) ==
    \E raises \in BOOLEAN :
    LET task == ca.tasks[i]
        health == IF raises
                  THEN [task.health EXCEPT
                            !.error = "error",
                            !.consecutive_failures = @ + 1,
                            !.status = IF task.attempt < HealthMaxRetries THEN @ ELSE "unhealthy"]
                  ELSE [task.health EXCEPT
                            !.status = "healthy", !.error = "none", !.consecutive_failures = 0]
        ends == ~raises \/ task.attempt >= HealthMaxRetries
    IN  /\ ca.pc = "running"
        /\ i <= Len(ca.tasks)
        /\ task.pc = "probing"
        /\ ca' = [ca EXCEPT !.value = IF ends THEN @ + 1 ELSE @,
                            !.tasks[i].pc = IF ends THEN "done" ELSE "sleeping",
                            !.tasks[i].probes = @ + 1,
                            !.tasks[i].health = health]
        /\ hcCache' = IF ends THEN [hcCache EXCEPT ![task.model] = health] ELSE hcCache
        /\ hcLast' = hcLast
        /\ OnlyCheckAll

\* asyncio.sleep(0.5) of task i is over: the next attempt
check_model_retry(i) ==
    /\ ca.pc = "running"
    /\ i <= Len(ca.tasks)
    /\ ca.tasks[i].pc = "sleeping"
    /\ ca' = [ca EXCEPT !.tasks[i].pc = "probing", !.tasks[i].attempt = @ + 1]
    /\ UNCHANGED <<hcCache, hcLast>>
    /\ OnlyCheckAll

\* gather() has every result: check_all() returns
check_all_return ==
    LET results == [i \in 1..Len(ca.tasks) |-> ca.tasks[i].health]
    IN  /\ ca.pc = "running"
        /\ \A i \in 1..Len(ca.tasks) : ca.tasks[i].pc = "done"
        /\ ca' = [ca EXCEPT !.pc = "returned"]
        /\ hcLast' = [op |-> "check_all",
                      models |-> [i \in 1..Len(ca.tasks) |-> ca.tasks[i].model],
                      force |-> ca.force, at |-> now,
                      probes |-> [m \in HealthModels |->
                                    SeqSum([i \in 1..Len(ca.tasks) |->
                                        IF ca.tasks[i].model = m THEN ca.tasks[i].probes ELSE 0])],
                      result |-> gather_result(results)]
        /\ hcCache' = hcCache
        /\ OnlyCheckAll

NextCheckAll ==
    \/ \E l \in TaskLists, force \in BOOLEAN, c \in 1..MaxLimit : check_all_gather(l, force, c)
    \/ \E i \in TaskIds : check_with_semaphore(i)
    \/ \E i \in TaskIds : check_model_attempt(i)
    \/ \E i \in TaskIds : check_model_retry(i)
    \/ check_all_return

(***************************************************************************)
(* Specifications: one per component, over the same initial state but for  *)
(* the capacity of the in-process cache, which the cache's own              *)
(* specification draws from 1..MaxCap.                                     *)
(***************************************************************************)
StartRL ==
    /\ InitRL /\ InitCache("memory", 1) /\ InitCost(None, FALSE)
    /\ InitAdapter(DefaultMaxRetries, FALSE, FALSE) /\ InitLimiter("memory", FALSE)
    /\ InitCallers /\ InitHealth /\ InitCheckAll /\ InitKey /\ InitTracer /\ InitUsage /\ InitRouter
SpecRL == StartRL /\ [][NextRL]_vars

StartCache ==
    /\ InitRL
    /\ \/ \E k \in 1..MaxCap : InitCache("memory", k)
       \/ InitCache("redis", 1)
    /\ InitCost(None, FALSE)
    /\ InitAdapter(DefaultMaxRetries, FALSE, FALSE)
    /\ InitLimiter("memory", FALSE)
    /\ InitCallers /\ InitHealth /\ InitCheckAll /\ InitKey /\ InitTracer /\ InitUsage /\ InitRouter

\* the budgets a tracker is built with: none, zero, and one that two calls pass
Budgets == {None} \cup {[usd |-> b] : b \in 0..1}

StartCost ==
    /\ InitRL
    /\ InitCache("memory", 1)
    /\ \E b \in Budgets, cb \in BOOLEAN : InitCost(b, cb)
    /\ InitAdapter(DefaultMaxRetries, FALSE, FALSE)
    /\ InitLimiter("memory", FALSE)
    /\ InitCallers /\ InitHealth /\ InitCheckAll /\ InitKey /\ InitTracer /\ InitUsage /\ InitRouter
SpecCost == StartCost /\ [][NextCost]_vars

StartAdapter ==
    /\ InitRL
    /\ InitCache("memory", 1)
    /\ InitCost(None, FALSE)
    /\ \E n \in 1..MaxRetriesSetting, c \in BOOLEAN : InitAdapter(n, c, FALSE)
    /\ InitLimiter("memory", FALSE)
    /\ InitCallers /\ InitHealth /\ InitCheckAll /\ InitKey /\ InitTracer /\ InitUsage /\ InitRouter
SpecAdapter == StartAdapter /\ [][NextAdapter]_vars

\* the adapter over a cache whose get() and set() can raise
StartAdapterFaults ==
    /\ InitRL
    /\ InitCache("memory", 1)
    /\ InitCost(None, FALSE)
    /\ InitAdapter(DefaultMaxRetries, TRUE, TRUE)
    /\ InitLimiter("memory", FALSE)
    /\ InitCallers /\ InitHealth /\ InitCheckAll /\ InitKey /\ InitTracer /\ InitUsage /\ InitRouter
SpecAdapterFaults == StartAdapterFaults /\ [][NextAdapter]_vars

\* the adapter with a cache, whose calls the caller can cancel
StartAdapterCancel ==
    /\ InitRL
    /\ InitCache("memory", 1)
    /\ InitCost(None, FALSE)
    /\ InitAdapter(DefaultMaxRetries, TRUE, FALSE)
    /\ InitLimiter("memory", FALSE)
    /\ InitCallers /\ InitHealth /\ InitCheckAll /\ InitKey /\ InitTracer /\ InitUsage /\ InitRouter
NextAdapterCancel ==
    \/ NextAdapter
    \/ LiteLLMAdapter_cancel
SpecAdapterCancel == StartAdapterCancel /\ [][NextAdapterCancel]_vars

\* either limiter, used through the RateLimiter interface
StartLimiter ==
    /\ InitRL
    /\ InitCache("memory", 1)
    /\ InitCost(None, FALSE)
    /\ InitAdapter(DefaultMaxRetries, FALSE, FALSE)
    /\ \E type \in {"memory", "redis"} : InitLimiter(type, FALSE)
    /\ InitCallers /\ InitHealth /\ InitCheckAll /\ InitKey /\ InitTracer /\ InitUsage /\ InitRouter
SpecLimiter == StartLimiter /\ [][NextLimiter]_vars

\* MemoryRateLimiter used through the interface
StartMemoryLimiter ==
    /\ InitRL
    /\ InitCache("memory", 1)
    /\ InitCost(None, FALSE)
    /\ InitAdapter(DefaultMaxRetries, FALSE, FALSE)
    /\ InitLimiter("memory", FALSE)
    /\ InitCallers /\ InitHealth /\ InitCheckAll /\ InitKey /\ InitTracer /\ InitUsage /\ InitRouter
SpecMemoryLimiter == StartMemoryLimiter /\ [][NextLimiter]_vars

\* RedisRateLimiter over a backend that raises errors
StartRedisLimiterFaults ==
    /\ InitRL
    /\ InitCache("memory", 1)
    /\ InitCost(None, FALSE)
    /\ InitAdapter(DefaultMaxRetries, FALSE, FALSE)
    /\ InitLimiter("redis", TRUE)
    /\ InitCallers /\ InitHealth /\ InitCheckAll /\ InitKey /\ InitTracer /\ InitUsage /\ InitRouter
SpecRedisLimiterFaults == StartRedisLimiterFaults /\ [][NextLimiter]_vars
SpecCache == StartCache /\ [][NextCache]_vars

\* an in-process cache one entry larger than the largest of StartCache, used
\* through its own four operations
LruCap == MaxCap + 1

StartLru ==
    /\ InitRL
    /\ InitCache("memory", LruCap)
    /\ InitCost(None, FALSE)
    /\ InitAdapter(DefaultMaxRetries, FALSE, FALSE)
    /\ InitLimiter("memory", FALSE)
    /\ InitCallers /\ InitHealth /\ InitCheckAll /\ InitKey /\ InitTracer /\ InitUsage /\ InitRouter

NextLru ==
    \/ \E q \in Requests : MemoryLLMCache_get(q)
    \/ \E q \in Requests, r \in Responses : MemoryLLMCache_set(q, r)
    \/ \E q \in Requests : MemoryLLMCache_delete(q)
    \/ MemoryLLMCache_clear

SpecLru == StartLru /\ [][NextLru]_vars

\* a request for model "a" that leaves every optional field to its default,
\* and any second request in some field order, whose keys are then built
StartKey ==
    /\ InitRL
    /\ InitCache("memory", 1)
    /\ InitCost(None, FALSE)
    /\ InitAdapter(DefaultMaxRetries, FALSE, FALSE)
    /\ InitLimiter("memory", FALSE)
    /\ InitCallers /\ InitHealth /\ InitCheckAll /\ InitTracer /\ InitUsage /\ InitRouter
    /\ \E ma \in KeyMessageLists, pb \in KeyParts, ob \in OtherParts, order \in FieldOrders :
          kc = [NoKey EXCEPT !.pc = "requests",
                             !.a = serialize(DefaultParts(ma), [stop |-> <<>>, stream |-> FALSE,
                                                                metadata |-> {}], RequestFields),
                             !.b = serialize(pb, ob, order)]

SpecKey == StartKey /\ [][NextKey]_vars

\* the adapter and the router over the usage a provider reports
StartUsage ==
    /\ InitRL
    /\ InitCache("memory", 1)
    /\ InitCost(None, FALSE)
    /\ InitAdapter(DefaultMaxRetries, FALSE, FALSE)
    /\ InitLimiter("memory", FALSE)
    /\ InitCallers /\ InitHealth /\ InitCheckAll /\ InitKey /\ InitTracer /\ InitUsage /\ InitRouter

SpecUsage == StartUsage /\ [][NextUsage]_vars

\* traced completions, one at a time
StartTracer ==
    /\ InitRL
    /\ InitCache("memory", 1)
    /\ InitCost(None, FALSE)
    /\ InitAdapter(DefaultMaxRetries, FALSE, FALSE)
    /\ InitLimiter("memory", FALSE)
    /\ InitCallers /\ InitHealth /\ InitCheckAll /\ InitKey /\ InitTracer /\ InitUsage /\ InitRouter

SpecTracer == StartTracer /\ [][NextTracer]_vars

\* a health checker over a provider that may also return empty responses
StartProbe ==
    /\ InitRL
    /\ InitCache("memory", 1)
    /\ InitCost(None, FALSE)
    /\ InitAdapter(DefaultMaxRetries, FALSE, FALSE)
    /\ InitLimiter("memory", FALSE)
    /\ InitCallers /\ InitHealth /\ InitCheckAll /\ InitKey /\ InitTracer /\ InitUsage /\ InitRouter

SpecProbe == StartProbe /\ [][NextProbe]_vars

\* a router for every set of API keys and every list of fallback models
StartRouter ==
    /\ InitRL
    /\ InitCache("memory", 1)
    /\ InitCost(None, FALSE)
    /\ InitAdapter(DefaultMaxRetries, FALSE, FALSE)
    /\ InitLimiter("memory", FALSE)
    /\ InitCallers /\ InitHealth /\ InitCheckAll /\ InitKey /\ InitTracer /\ InitUsage
    /\ \E keys \in SUBSET Providers, fallback_models \in FallbackLists :
          rt = [NoRouter EXCEPT !.pc = "settings", !.keys = keys,
                                !.fallback_models = fallback_models]

SpecRouter == StartRouter /\ [][NextRouter]_vars

\* concurrent callers of either limiter
StartCallers ==
    /\ InitRL
    /\ InitCache("memory", 1)
    /\ InitCost(None, FALSE)
    /\ InitAdapter(DefaultMaxRetries, FALSE, FALSE)
    /\ \E type \in {"memory", "redis"} : InitLimiter(type, FALSE)
    /\ InitCallers /\ InitHealth /\ InitCheckAll /\ InitKey /\ InitTracer /\ InitUsage /\ InitRouter
SpecCallers == StartCallers /\ [][NextCallers]_vars

StartHealth ==
    /\ InitRL
    /\ InitCache("memory", 1)
    /\ InitCost(None, FALSE)
    /\ InitAdapter(DefaultMaxRetries, FALSE, FALSE)
    /\ InitLimiter("memory", FALSE)
    /\ InitCallers /\ InitHealth /\ InitCheckAll /\ InitKey /\ InitTracer /\ InitUsage /\ InitRouter
SpecHealth == StartHealth /\ [][NextHealth]_vars

\* one check_all() on a new checker; the event loop runs every task that
\* can run, and every probe answers or raises
StartCheckAll ==
    /\ InitRL
    /\ InitCache("memory", 1)
    /\ InitCost(None, FALSE)
    /\ InitAdapter(DefaultMaxRetries, FALSE, FALSE)
    /\ InitLimiter("memory", FALSE)
    /\ InitCallers /\ InitHealth /\ InitCheckAll /\ InitKey /\ InitTracer /\ InitUsage /\ InitRouter
SpecCheckAll == StartCheckAll /\ [][NextCheckAll]_vars /\ WF_vars(NextCheckAll)

(***************************************************************************)
(* C1: with rpm = N and a token budget that never limits, on a limiter     *)
(* that starts with no usage, each of the first N check() calls of a run   *)
(* check(), record(), check(), record(), ... made within one 60-second     *)
(* window is admitted, and the check() after N pairs in that window is     *)
(* denied with reason "rpm" and 0 < wait_seconds <= 60.                    *)
(***************************************************************************)
TpmNeverLimits(m) == get_limits(m).tpm >= (MaxReq + 2) * MaxTok

\* the latest operation was the check() on m after j finished pairs of the run,
\* made less than 60 seconds after the run's first check()
InRun(m, j) ==
    /\ rlScript.ok
    /\ rlScript.model = m
    /\ rlScript.expect = "record"
    /\ rlScript.pairs = j
    /\ rlLast.seen
    /\ rlLast.model = m
    /\ now - rlScript.start < Window

C1_RpmAdmission ==
    \A m \in Models :
        TpmNeverLimits(m) =>
            /\ \A j \in 0..(get_limits(m).rpm - 1) :
                  InRun(m, j) => rlLast.allowed
            /\ InRun(m, get_limits(m).rpm) =>
                  /\ ~rlLast.allowed
                  /\ rlLast.reason = "rpm"
                  /\ rlLast.wait_seconds > 0
                  /\ rlLast.wait_seconds <= 60

\* the check() after N pairs has been made, the clock having moved inside the window
C1_Witness ==
    /\ InRun("a", RpmA)
    /\ now > rlScript.start
    /\ ~rlLast.allowed

(***************************************************************************)
(* C2: with max_size = k >= 1, after k+1 set() calls with pairwise         *)
(* distinct keys, none of them stored before the first call, and no other  *)
(* operation in between, get() of the key set first misses and get() of    *)
(* each of the other k keys hits.                                          *)
(***************************************************************************)
Distinct(s) == \A i, j \in 1..Len(s) : i # j => s[i] # s[j]
SeqRange(s) == {s[i] : i \in 1..Len(s)}

\* any request with the given cache key
RequestOf(key) == CHOOSE q \in Requests : build_cache_key(q) = key

\* k+1 set() calls with distinct keys, new to the cache, have just been made
C2_RunDone ==
    /\ cRun.on
    /\ Len(cRun.keys) = max_size + 1
    /\ Distinct(cRun.keys)
    /\ SeqRange(cRun.keys) \cap cRun.base = {}

C2_LruEviction ==
    C2_RunDone =>
        /\ mem_get_result(cache, RequestOf(cRun.keys[1])) = None
        /\ \A i \in 2..(max_size + 1) :
              mem_get_result(cache, RequestOf(cRun.keys[i])) # None

\* the run has been made on a cache of capacity 2 that held an entry before
C2_Witness ==
    /\ C2_RunDone
    /\ max_size = 2
    /\ cRun.base # {}

(***************************************************************************)
(* C3: in any reachable state of the cache, a get(req) that immediately    *)
(* follows set(req, resp) returns a response equal to resp: always for the *)
(* in-process cache, and for the Redis cache when neither call of the      *)
(* Redis client fails.                                                     *)
(***************************************************************************)
C3_RoundTrip ==
    (cLast.op = "get" /\ cLast.after_set # None /\ ~cLast.failed)
        => cLast.value = cLast.after_set

\* the get() followed a set() that replaced another response stored for the
\* key in the Redis cache
C3_Witness ==
    /\ cache_type = "redis"
    /\ cLast.op = "get"
    /\ cLast.after_set # None
    /\ ~cLast.failed
    /\ cLast.value.content = "y"
    /\ Cardinality(redis) > 1

(***************************************************************************)
(* C10: the Redis cache fails open.  When the call of the Redis client     *)
(* raises, get() returns a miss, delete() returns false, and get(), set()  *)
(* and delete() leave the database as it was; clear() leaves only entries  *)
(* that were stored before it; no operation lets an exception out; and     *)
(* every stored entry is the serialization of a response.                  *)
(***************************************************************************)
C10_RedisFailOpen ==
    /\ cLast.raised = "none"
    /\ (cLast.failed /\ cLast.op = "get") => (cLast.value = None /\ redis = cLast.before)
    /\ (cLast.failed /\ cLast.op = "set") => redis = cLast.before
    /\ (cLast.failed /\ cLast.op = "delete") => (cLast.value = FALSE /\ redis = cLast.before)
    /\ (cLast.failed /\ cLast.op = "clear") => redis \subseteq cLast.before
    /\ \A e \in redis :
          /\ model_validate_json(e.data) \in Responses
          /\ model_dump_json(model_validate_json(e.data)) = e.data
          /\ \A o \in redis : o.key = e.key => o = e

\* a delete() of a stored key has failed with other entries stored
C10_Witness ==
    /\ cache_type = "redis"
    /\ cLast.op = "delete"
    /\ cLast.failed
    /\ cLast.key \in RedisKeys(redis)
    /\ Cardinality(redis) > 1

(***************************************************************************)
(* C5: after every step get_task_cost(t) equals the sum of the cost_usd    *)
(* that record() was given for task t (since the latest clear()), and a    *)
(* record() call never lowers get_summary().total_cost_usd nor             *)
(* get_task_cost(t) of any task t.  Costs are drawn from 0..MaxCost:       *)
(* record() itself does not check the sign of cost_usd.                    *)
(***************************************************************************)
C5_IsRecord == Len(ctRecords') = Len(ctRecords) + 1

C5_CostMonotone ==
    [][/\ \A t \in Tasks : get_task_cost(ctRecords', t) = ctSpent'[t]
       /\ C5_IsRecord =>
            /\ get_summary(ctRecords').total_cost_usd >= get_summary(ctRecords).total_cost_usd
            /\ \A t \in Tasks : get_task_cost(ctRecords', t) >= get_task_cost(ctRecords, t)
      ]_vars

\* two tasks have costs on record, one of them from two calls
C5_Witness ==
    /\ Len(ctRecords) = 3
    /\ get_task_cost(ctRecords, "t1") > ctRecords[1].cost_usd
    /\ ctRecords[1].task_id = "t1"
    /\ get_task_cost(ctRecords, "t2") > 0
    /\ ctRecords[3].model # ctRecords[1].model

\* the gateway error the specification gives for each provider error
GatewayErrorOf(error) ==
    CASE error = "RateLimitError" -> "LLMRateLimitError"
      [] error = "Timeout" -> "LLMTimeoutError"
      [] error = "AuthenticationError" -> "LLMAuthenticationError"
      [] error = "ContextWindowExceededError" -> "LLMContextLengthError"
      [] error = "ContentPolicyViolationError" -> "LLMContentFilterError"
      [] error = "NotFoundError" -> "LLMModelNotAvailableError"
      [] error = "BadRequestError" -> "LLMInvalidRequestError"
      [] error \in {"APIError", "APIConnectionError"} -> "LLMProviderError"
      [] OTHER -> "LLMError"

GatewayErrors ==
    {"LLMRateLimitError", "LLMTimeoutError", "LLMAuthenticationError",
     "LLMContextLengthError", "LLMContentFilterError", "LLMModelNotAvailableError",
     "LLMInvalidRequestError", "LLMProviderError", "LLMError"}

(***************************************************************************)
(* C4: the adapter calls cache.set only in a complete() call on a request  *)
(* whose stream flag is false and whose provider call succeeded: never in  *)
(* stream_complete(), in a complete() that fails, or in a complete() on a  *)
(* request with stream = true.                                             *)
(***************************************************************************)
C4_CacheWriteOnlyNonStreaming ==
    adCall.sets > 0 =>
        /\ adCall.op = "complete"
        /\ ~adCall.request.stream
        /\ adCall.outcomes # <<>>
        /\ adCall.outcomes[Len(adCall.outcomes)].ok

(***************************************************************************)
(* C6: in complete() and complete_with_tools() every provider attempt but  *)
(* the last failed with RateLimitError or ServiceUnavailableError, at most *)
(* max_retries attempts are made, a successful attempt ends the call with  *)
(* its response, and the call ends with an error raised when its last      *)
(* attempt failed.                                                         *)
(***************************************************************************)
C6_RetryBound ==
    adCall.op \in {"complete", "complete_with_tools"} =>
        LET n == Len(adCall.outcomes)
        IN  /\ \A i \in 1..(n - 1) :
                    /\ ~adCall.outcomes[i].ok
                    /\ adCall.outcomes[i].error \in {"RateLimitError", "ServiceUnavailableError"}
            /\ n <= adMaxRetries
            /\ (n > 0 /\ adCall.outcomes[n].ok) =>
                    /\ adCall.pc = "done"
                    /\ adCall.result = parse_response(adCall.outcomes[n], adCall.request.model)
            /\ (adCall.pc = "done" /\ n > 0 /\ ~adCall.outcomes[n].ok) =>
                    adCall.result = Raised(GatewayErrorOf(adCall.outcomes[n].error))

(***************************************************************************)
(* C7: when the provider's error in complete() is not RateLimitError or    *)
(* ServiceUnavailableError, no attempt follows it and the call ends with   *)
(* the mapped error; when it is the first error, the provider was called   *)
(* exactly once.  ContextWindowExceededError gives LLMContextLengthError.  *)
(***************************************************************************)
C7_NotRetried ==
    {"Timeout", "AuthenticationError", "ContextWindowExceededError",
     "ContentPolicyViolationError", "NotFoundError", "BadRequestError", "APIError",
     "APIConnectionError", "Exception"}

C7_NoRetryOnOtherErrors ==
    adCall.op = "complete" =>
        \A i \in 1..Len(adCall.outcomes) :
            (~adCall.outcomes[i].ok /\ adCall.outcomes[i].error \in C7_NotRetried) =>
                /\ i = Len(adCall.outcomes)
                /\ adCall.pc = "done"
                /\ adCall.result = Raised(GatewayErrorOf(adCall.outcomes[i].error))
                /\ adCall.outcomes[i].error = "ContextWindowExceededError" =>
                        adCall.result = Raised("LLMContextLengthError")

\* complete() ended by ContextWindowExceededError at its first provider call
C7_Witness ==
    /\ adCall.op = "complete"
    /\ adCall.pc = "done"
    /\ Len(adCall.outcomes) = 1
    /\ adCall.outcomes[1].error = "ContextWindowExceededError"
    /\ adCall.result = Raised("LLMContextLengthError")

(***************************************************************************)
(* C8: a complete(), complete_with_tools() or stream_complete() call whose *)
(* last provider call failed ends with the one gateway error the table     *)
(* gives for the provider error, mapped in one _handle_error call; what a  *)
(* call raises is always a gateway error.                                  *)
(***************************************************************************)
C8_ErrorMappingOnce ==
    LET n == Len(adCall.outcomes)
        failed == adCall.pc = "done" /\ n > 0 /\ ~adCall.outcomes[n].ok
    IN  /\ failed =>
            /\ adCall.result = Raised(GatewayErrorOf(adCall.outcomes[n].error))
            /\ adCall.mappings = 1
        /\ ~failed => adCall.mappings = 0
        /\ adCall.result \in {Raised(e) : e \in ProviderErrors \cup GatewayErrors} =>
            adCall.result.raised \in GatewayErrors

\* complete_with_tools() ended by a content policy violation at its third attempt
C8_Witness ==
    /\ adCall.op = "complete_with_tools"
    /\ adCall.pc = "done"
    /\ Len(adCall.outcomes) = 3
    /\ adCall.outcomes[3].error = "ContentPolicyViolationError"
    /\ adCall.result = Raised("LLMContentFilterError")

(***************************************************************************)
(* C9: a complete() call on a non-streaming request for which the cache    *)
(* holds a response ends at once with the content of that response, with   *)
(* no provider call and no cache.set.                                      *)
(***************************************************************************)
C9_CacheHitShortCircuit ==
    (adCall.op = "complete" /\ ~adCall.request.stream /\ adCall.held # None) =>
        /\ adCall.pc = "done"
        /\ adCall.outcomes = <<>>
        /\ adCall.sets = 0
        /\ adCall.result # None
        /\ adCall.result.content = adCall.held.content

\* a hit on the response "x" while the provider would answer something else
C9_Witness ==
    /\ adCall.op = "complete"
    /\ ~adCall.request.stream
    /\ adCall.held # None
    /\ adCall.held.content = "x"
    /\ adCall.result.content = "x"
    /\ adCall.outcomes = <<>>

(***************************************************************************)
(* C11: a complete() call whose cache.get raised goes on to the provider   *)
(* as on a miss, and a complete() call whose cache.set raised after a      *)
(* successful provider call returns the provider's response.               *)
(***************************************************************************)
C11_CacheFailureSwallowed ==
    /\ adCall.get_raised =>
            /\ adCall.pc = "provider" \/ adCall.outcomes # <<>>
            /\ adCall.result # Raised("CacheError")
    /\ adCall.set_raised =>
            adCall.result = parse_response(adCall.outcomes[Len(adCall.outcomes)],
                                           adCall.request.model)

(***************************************************************************)
(* C13: a record(model, tokens) call raises rpm_used of the model by 1 and *)
(* its tpm_used by tokens, also at the timestamp of an earlier record, and *)
(* leaves the usage of every other model as it was; check() and            *)
(* get_usage() leave the usage of every model as it was.  For both         *)
(* limiters, the backend not failing.                                      *)
(***************************************************************************)
C13_RecordConsumesExactly ==
    [][now' = now =>
        IF Len(lmHist') = Len(lmHist) + 1
        THEN LET e == lmHist'[Len(lmHist')]
             IN  \A m \in Models :
                    IF m = e.model
                    THEN /\ Usage(m)'.rpm_used = Usage(m).rpm_used + 1
                         /\ Usage(m)'.tpm_used = Usage(m).tpm_used + e.tokens
                    ELSE Usage(m)' = Usage(m)
        ELSE \A m \in Models : Usage(m)' = Usage(m)
      ]_vars

(***************************************************************************)
(* C14: with TPM not limiting, a check() made wait_seconds after a check() *)
(* denied for rpm, no record() on the model in between, is allowed; so is  *)
(* a check() made 61 s or more after the last record() on the model; and   *)
(* the wait_seconds of a denial for rpm is 60 - (now - oldest timestamp in *)
(* the window), not below 0.                                               *)
(***************************************************************************)
RecordedAt(m) == {lmHist[i].at : i \in {j \in 1..Len(lmHist) : lmHist[j].model = m}}

C14_RpmDenialTemporary ==
    lmLast.op = "check" =>
        LET m == lmLast.model
            r == lmLast.result
            tpm_free == lmLast.usage.tpm_used + lmLast.tokens <= lmLast.usage.tpm_limit
            in_window == {t \in RecordedAt(m) : t > now - Window}
        IN  /\ (tpm_free /\ lmLast.deny # None
                    /\ now = lmLast.deny.at + lmLast.deny.wait_seconds) => r.allowed
            /\ (tpm_free /\ RecordedAt(m) # {}
                    /\ \A t \in RecordedAt(m) : now >= t + Window + 1) => r.allowed
            /\ r.reason = "rpm" =>
                    /\ in_window # {}
                    /\ r.wait_seconds = Max(0, Window - (now - SetMin(in_window)))

(***************************************************************************)
(* C15: MemoryRateLimiter.check(model, estimated_tokens) with rpm_used     *)
(* below rpm_limit is denied, with reason 'tpm' and wait_seconds 60, when  *)
(* tpm_used + estimated_tokens > tpm_limit and is allowed otherwise; with  *)
(* rpm_used at rpm_limit or above it is denied with reason 'rpm', also     *)
(* when the token budget is exhausted as well.                             *)
(***************************************************************************)
C15_TpmAdmission ==
    lmLast.op = "check" =>
        LET u == lmLast.usage
            r == lmLast.result
        IN  IF u.rpm_used < u.rpm_limit
            THEN IF u.tpm_used + lmLast.tokens > u.tpm_limit
                 THEN ~r.allowed /\ r.reason = "tpm" /\ r.wait_seconds = 60
                 ELSE r.allowed
            ELSE ~r.allowed /\ r.reason = "rpm"

\* a check() denied for tpm with requests on record and the rpm budget not used up
C15_Witness ==
    /\ lmLast.op = "check"
    /\ lmLast.usage.rpm_used > 0
    /\ lmLast.usage.rpm_used < lmLast.usage.rpm_limit
    /\ lmLast.usage.tpm_used + lmLast.tokens = lmLast.usage.tpm_limit + 1
    /\ lmLast.result.reason = "tpm"

(***************************************************************************)
(* C16: at every moment the tpm_used of a model is the sum of the tokens   *)
(* passed to record() for it during the 60 seconds that end now.           *)
(***************************************************************************)
C16_TpmSlidingWindow ==
    \A m \in Models :
        Usage(m).tpm_used =
            SeqSum([i \in 1..Len(lmHist) |->
                IF lmHist[i].model = m /\ lmHist[i].at > now - Window
                THEN lmHist[i].tokens ELSE 0])

(***************************************************************************)
(* C17: when the Redis backend raises during a call of RedisRateLimiter,   *)
(* check() returns allowed = true, and record() and get_usage() return:    *)
(* no exception leaves any of the three.                                   *)
(***************************************************************************)
C17_RedisLimiterFailOpen ==
    /\ lmLast.raised = "none"
    /\ (lmLast.failed /\ lmLast.op = "check") =>
            /\ lmLast.result.allowed
            /\ lmLast.result.wait_seconds = 0
    /\ (lmLast.failed /\ lmLast.op = "get_usage") => lmLast.result # None

\* a check() during which the backend failed, on a model whose window is full
C17_Witness ==
    /\ lmLast.op = "check"
    /\ lmLast.failed
    /\ lmLast.result.allowed
    /\ lmLast.usage.rpm_used >= lmLast.usage.rpm_limit

(***************************************************************************)
(* C12: whatever the interleaving of concurrent callers that each run      *)
(* check(), the provider call and record() on one limiter and one model,   *)
(* the callers admitted by check() whose provider calls were made within   *)
(* one 60-second window are never more than rpm_limit.                     *)
(***************************************************************************)
CalledInWindow ==
    {c \in Callers : callers[c].pc \in {"called", "done"} /\ callers[c].at > now - Window}

C12_AdmittedWithinRpm == Cardinality(CalledInWindow) <= get_limits(CallerModel).rpm

(***************************************************************************)
(* C18: with a budget and an on_budget_exceeded callback set, a record()   *)
(* call invokes the callback exactly when it takes the running total from  *)
(* at most the budget to above it, and then once: a record() made while    *)
(* the total is already above the budget does not invoke it. No other      *)
(* call invokes it.                                                        *)
(***************************************************************************)
C18_CallbackOncePerCrossing ==
    [][IF C5_IsRecord /\ ctBudget # None /\ ctCallback
       THEN IF ctTotal <= ctBudget.usd /\ ctTotal' > ctBudget.usd
            THEN ctCalls' = ctCalls + 1
            ELSE ctCalls' = ctCalls
       ELSE ctCalls' = ctCalls
      ]_vars

(***************************************************************************)
(* C19: check_model(model, force = false) issues no probe and returns the  *)
(* cached record, leaving the cache as it is, whenever the cache holds a   *)
(* record of the model with now - last_check < cache_ttl; in every other   *)
(* case (force = true, no record, a record as old as the TTL or older) it  *)
(* issues at least one probe and returns a record made now, which it puts  *)
(* in the cache. A check_all() without force that follows a check_all()    *)
(* over the same models, with no other call between them and within the    *)
(* TTL of the records the first one returned (now - last_check < cache_ttl *)
(* for each of them), issues no probe and returns the same result.         *)
(***************************************************************************)
C19_Fresh(m) == hcCache[m] # None /\ now - hcCache[m].last_check < CacheTtl

C19_HealthTtlCache ==
    [][now' = now =>
        /\ hcLast'.op = "check_model" =>
            LET m == hcLast'.models[1]
            IN  IF ~hcLast'.force /\ C19_Fresh(m)
                THEN /\ hcLast'.probes[m] = 0
                     /\ hcLast'.result = hcCache[m]
                     /\ hcCache' = hcCache
                ELSE /\ hcLast'.probes[m] >= 1
                     /\ hcLast'.result.last_check = now
                     /\ hcCache'[m] = hcLast'.result
        /\ ( /\ hcLast.op = "check_all"
             /\ hcLast'.op = "check_all"
             /\ hcLast'.models = hcLast.models
             /\ ~hcLast'.force
             /\ \A i \in 1..Len(hcLast.models) :
                    now - hcLast.result.models[hcLast.models[i]].last_check < CacheTtl )
           => /\ \A m \in HealthModels : hcLast'.probes[m] = 0
              /\ hcLast'.result = hcLast.result
      ]_vars

\* a check_all() over three models answered from the cache alone, with
\* records made earlier by probes, one of them of an unhealthy model
C19_Witness ==
    /\ hcLast.op = "check_all"
    /\ Len(hcLast.models) = 3
    /\ ~hcLast.force
    /\ \A m \in HealthModels :
        /\ hcLast.probes[m] = 0
        /\ hcLast.result.models[m].last_check < hcLast.at
    /\ hcLast.result.healthy_count = 2

(***************************************************************************)
(* C20: check_all() over a list of distinct models returns the records of  *)
(* check_model() for them, healthy_count the number of these records that  *)
(* are healthy and total_count the number of models; over at least one     *)
(* model, overall_status is healthy iff all the records are healthy,       *)
(* unhealthy iff none is, and degraded otherwise. Over no model it is      *)
(* unknown, with both counts 0.                                            *)
(***************************************************************************)
C20_OverallStatus ==
    hcLast.op = "check_all" =>
        LET r == hcLast.result
            listed == {hcLast.models[i] : i \in 1..Len(hcLast.models)}
            healthy == {m \in listed : r.models[m].status = "healthy"}
        IN  /\ DOMAIN r.models = listed
            /\ \A m \in listed : r.models[m] = hcCache[m]
            /\ r.healthy_count = Cardinality(healthy)
            /\ r.total_count = Cardinality(listed)
            /\ IF listed = {}
               THEN r.overall_status = "unknown"
               ELSE /\ r.overall_status = "healthy" <=> healthy = listed
                    /\ r.overall_status = "unhealthy" <=> healthy = {}
                    /\ r.overall_status = "degraded" <=> (healthy # {} /\ healthy # listed)

\* two healthy models and an unhealthy one
C20_Witness ==
    /\ hcLast.op = "check_all"
    /\ hcLast.result.overall_status = "degraded"
    /\ hcLast.result.healthy_count = 2
    /\ hcLast.result.total_count = 3
    /\ \E m \in HealthModels : 
        /\ hcLast.result.models[m].status = "unhealthy"
        /\ hcLast.probes[m] = Attempts

(***************************************************************************)
(* C23: the consecutive_failures of a model's record never decreases       *)
(* except by a successful probe: a check_model() that probes and fails,    *)
(* made when the cache holds a record of earlier failures, returns a       *)
(* record with a strictly larger count, and a call that leaves a smaller   *)
(* count than it found is one whose probe succeeded, which leaves 0.       *)
(***************************************************************************)
C23_ConsecutiveFailuresGrow ==
    [][(now' = now /\ hcLast'.op = "check_model") =>
        LET m == hcLast'.models[1]
        IN  hcCache[m] # None =>
                /\ (hcLast'.probes[m] >= 1 /\ hcLast'.result.status = "unhealthy")
                    => hcLast'.result.consecutive_failures > hcCache[m].consecutive_failures
                /\ hcLast'.result.consecutive_failures < hcCache[m].consecutive_failures
                    => /\ hcLast'.probes[m] >= 1
                       /\ hcLast'.result.status = "healthy"
                       /\ hcLast'.result.consecutive_failures = 0
      ]_vars

(***************************************************************************)
(* C21: while check_all(models, concurrent_limit = c) runs, never more     *)
(* than c of its check_model() tasks are in progress (probing, or asleep   *)
(* before a retry), and, every probe answering or raising, the call        *)
(* returns, with every listed model checked.                               *)
(***************************************************************************)
InProgress ==
    {i \in 1..Len(ca.tasks) : ca.tasks[i].pc \in {"probing", "sleeping"}}

C22_ProbesDeduplicated ==
    \A m \in HealthModels :
        Cardinality({i \in InProgress : ca.tasks[i].model = m}) <= 1

(***************************************************************************)
(* C24: a complete() call cancelled while it waits for the provider has    *)
(* called cache.set not once, the cache holds the entries it held before   *)
(* the call, in their order, no cost is on record and the rate limiter has *)
(* no request on record for it.                                            *)
(***************************************************************************)
C24_Cancelled ==
    /\ adCall.op = "complete"
    /\ adCall.pc = "done"
    /\ adCall.result = Raised("CancelledError")

C24_CancelLeavesNothing ==
    C24_Cancelled =>
        /\ adCall.sets = 0
        /\ cache = adCall.before
        /\ ctRecords = <<>> /\ ctTotal = 0
        /\ \A m \in Models : Usage(m).rpm_used = 0 /\ Usage(m).tpm_used = 0

\* cancelled at the second attempt, on a miss, with an entry in the cache
C24_Witness ==
    /\ C24_Cancelled
    /\ ~adCall.request.stream
    /\ Len(adCall.outcomes) = 1
    /\ adCall.held = None
    /\ cache # <<>>

(***************************************************************************)
(* C25: what a complete() call does, it does in the order rate-limit       *)
(* admission, provider call, cost record, cache write, span close: no      *)
(* effect of the call comes before one that the order puts earlier. The    *)
(* cache is read before the first provider call, and a cache write comes   *)
(* right after a provider call that succeeded and before the call returns. *)
(***************************************************************************)
C25_Rank(effect) ==
    CASE effect \in {"rate_limit.check", "cache.get"} -> 1
      [] effect = "provider" -> 2
      [] effect = "cost.record" -> 3
      [] effect = "cache.set" -> 4
      [] effect = "span.close" -> 5
      [] OTHER -> 6

C25_EffectOrder ==
    adCall.op = "complete" =>
        LET t == adCall.trace
            n == Len(adCall.outcomes)
        IN  /\ \A i, j \in 1..Len(t) : i < j => C25_Rank(t[i]) <= C25_Rank(t[j])
            /\ \A j \in 1..Len(t) : t[j] = "cache.get" => j = 1
            /\ \A j \in 1..Len(t) : t[j] = "cache.set" =>
                    /\ j > 1 /\ t[j - 1] = "provider"
                    /\ n > 0 /\ adCall.outcomes[n].ok
                    /\ j < Len(t) /\ t[j + 1] \in {"return", "raise"}
            /\ Cardinality({j \in 1..Len(t) : t[j] = "provider"}) = n
            /\ adCall.sets = Cardinality({j \in 1..Len(t) : t[j] = "cache.set"})

\* a miss, a failed attempt, a successful one, the write and the return
C25_Witness ==
    /\ adCall.op = "complete"
    /\ adCall.trace = <<"cache.get", "provider", "provider", "cache.set", "return">>

(***************************************************************************)
(* C26: stream_complete() calls the provider once and yields the content   *)
(* chunks that arrived, each once and in the order of arrival; when the    *)
(* provider's stream ends the sequence ends, and when the provider fails,  *)
(* at the call or after chunks, nothing more is yielded and the gateway    *)
(* error of the failure is raised.                                         *)
(***************************************************************************)
C26_HasContent(c) == c \notin {"", "nochoices"}

C26_StreamChunksInOrder ==
    (adCall.op = "stream_complete" /\ adCall.pc = "done") =>
        LET arrived == adCall.chunks
            content == {i \in 1..Len(arrived) : C26_HasContent(arrived[i])}
            \* the place among the yielded chunks of the chunk that arrived i-th
            place(i) == Cardinality({j \in content : j <= i})
        IN  /\ Len(adCall.outcomes) = 1
            /\ Len(adCall.yielded) = Cardinality(content)
            /\ \A i \in content : adCall.yielded[place(i)] = arrived[i]
            /\ IF adCall.outcomes[1].ok
               THEN adCall.result \notin {Raised(e) : e \in ProviderErrors \cup GatewayErrors}
               ELSE adCall.result = Raised(GatewayErrorOf(adCall.outcomes[1].error))

\* a chunk without content, then a chunk of text, then the provider times out
C26_Witness ==
    /\ adCall.op = "stream_complete"
    /\ adCall.pc = "done"
    /\ adCall.chunks = <<"", "b">>
    /\ adCall.yielded = <<"b">>
    /\ adCall.result = Raised("LLMTimeoutError")

\* C27: MemoryLLMCache is least-recently-used by last access. A hit get()
\* leaves its key the most recently used entry, and the entry that a set() of
\* a new key evicts is the one whose latest access, set() or hit get(), is the
\* oldest of the entries held.
C27_EvictsOldestAccess ==
    [][/\ cLast'.op = "get" /\ cLast'.value # None
          => cache'[Len(cache')].key = cLast'.key
       /\ cLast'.op = "set" /\ cLast'.key \notin Keys(cache)
          => \A e \in Keys(cache) \ Keys(cache') : e = Head(cAccess)]_vars

\* C28: the cache key is determined by model, messages, temperature and
\* max_tokens alone. Two requests get the same key exactly when they agree on
\* these four fields, whatever their stop, stream and metadata and whatever
\* the order in which their fields were given; and the key built again for a
\* request is the key built before.
C28_KeyDeterminism ==
    kc.pc = "keys" =>
        LET qa == model_validate(kc.a)
            qb == model_validate(kc.b)
        IN  /\ (kc.ka = kc.kb) <=> /\ qa.model = qb.model
                                   /\ qa.messages = qb.messages
                                   /\ qa.temperature = qb.temperature
                                   /\ qa.max_tokens = qb.max_tokens
            /\ kc.again = kc.ka

\* two requests with equal keys whose stop, stream and metadata differ and
\* whose fields were given in opposite orders
C28_Witness ==
    /\ kc.pc = "keys"
    /\ kc.ka = kc.kb
    /\ kc.a[1][1] # kc.b[1][1]
    /\ model_validate(kc.b).stream
    /\ model_validate(kc.b).stop # <<>>
    /\ model_validate(kc.b).metadata # {}
    /\ Len(model_validate(kc.a).messages) = 2

\* C29: every CompletionResponse the adapter or the router emits has
\* usage.total_tokens = usage.prompt_tokens + usage.completion_tokens, also
\* when the total the provider reports is absent or is not that sum.
C29_TotalIsSum ==
    /\ us.emitted =>
          us.usage.total_tokens = us.usage.prompt_tokens + us.usage.completion_tokens
    /\ us.op # "none" /\ ~us.provider.has_total => us.emitted

\* C30: when the body of a traced completion ends by an exception or by
\* cancellation, the span is ended with status error and the same failure
\* reaches the caller; and no span is left open once its body has ended.
C30_SpanClosedWithError ==
    tr.pc = "closed" =>
        /\ tr.ended
        /\ tr.outcome # "return" => /\ tr.status = "error"
                                    /\ tr.propagated = tr.outcome

\* the attempts a probing check_model() has made, as outcomes
C34_Made == SubSeq(hcLast.outcomes, 1, hcLast.probes[hcLast.models[1]])

\* C34: a check_model() that probes makes at most max_retries + 1 attempts and
\* none after the first response. If an attempt got a response, the record is
\* healthy with consecutive_failures = 0 and no error, also after failed
\* attempts; if every attempt raised, it is unhealthy with the error of the last
\* attempt. The record returned is the record the cache holds for the model.
C34_ProbeAttempts ==
    hcLast.op = "check_model" /\ hcLast.outcomes # <<>> =>
        LET made == C34_Made
            n == Len(made)
        IN  /\ n >= 1 /\ n <= HealthMaxRetries + 1
            /\ \A i \in 1..(n - 1) : made[i] # "response"
            /\ n < HealthMaxRetries + 1 => made[n] = "response"
            /\ made[n] = "response" =>
                  /\ hcLast.result.status = "healthy"
                  /\ hcLast.result.consecutive_failures = 0
                  /\ hcLast.result.error = "none"
            /\ (\A i \in 1..n : made[i] \in {"error1", "error2"}) =>
                  /\ hcLast.result.status = "unhealthy"
                  /\ hcLast.result.error = made[n]
            /\ hcCache[hcLast.models[1]] = hcLast.result

\* a probe that raised and then got a response
C34_Witness ==
    /\ hcLast.op = "check_model"
    /\ hcLast.outcomes = <<"error1", "response">>
    /\ hcLast.probes[hcLast.models[1]] = 2
    /\ hcLast.result.status = "healthy"

\* C39: the record a probing check_model() returns and caches has status
\* healthy or unhealthy, never unknown, whether the provider raised, returned
\* a response or returned an empty response.
C39_NeverUnknownAfterProbe ==
    hcLast.op = "check_model" /\ hcLast.outcomes # <<>> =>
        /\ hcLast.result.status \in {"healthy", "unhealthy"}
        /\ hcCache[hcLast.models[1]].status \in {"healthy", "unhealthy"}

\* C35: a MemoryLLMCache of max_size k >= 1 never holds more than k entries,
\* and none of its operations raises.
C35_SizeBounded ==
    cache_type = "memory" =>
        /\ Len(cache) <= max_size
        /\ Cardinality(Keys(cache)) = Len(cache)
        /\ cLast.raised = "none"

\* a full cache of more than one entry after a run of set() calls with more
\* distinct new keys than it holds
C35_Witness ==
    /\ cache_type = "memory"
    /\ max_size > 1
    /\ Len(cache) = max_size
    /\ cLast.op = "set"
    /\ cRun.on
    /\ Len(cRun.keys) > max_size

\* C36: set() for a key the cache already holds replaces the value of that
\* key, evicts no other entry, also at capacity, and leaves the key the most
\* recently used entry.
C36_OverwriteKeepsOthers ==
    [][cache_type = "memory" /\ cLast'.op = "set" /\ cLast'.key \in Keys(cache)
        => /\ Keys(cache') = Keys(cache)
           /\ \A i \in 1..Len(cache') :
                 cache'[i].value = IF cache'[i].key = cLast'.key THEN cLast'.value
                                   ELSE ValueOf(cache, cache'[i].key)
           /\ cache'[Len(cache')].key = cLast'.key]_vars

\* C37: a cache hit served by complete() leaves the stored entry as it was:
\* the cache still holds, for the request, a response equal in every field,
\* latency_ms included, to the one it held before the call.
C37_HitLeavesEntry ==
    (adCall.op = "complete" /\ ~adCall.request.stream /\ adCall.held # None) =>
        mem_get_result(cache, adCall.request) = adCall.held

\* get_remaining_budget() is 0 exactly when the total has reached the budget,
\* and None exactly when no budget is set
C38_RemainingConsistent ==
    /\ (get_remaining_budget(ctBudget, ctTotal) = None) <=> (ctBudget = None)
    /\ ctBudget # None =>
          ((get_remaining_budget(ctBudget, ctTotal).usd = 0) <=> (ctTotal >= ctBudget.usd))

\* C38: for every budget, 0 included, a record() that leaves
\* is_budget_exceeded() true with a callback configured has been preceded or
\* accompanied by a call of the callback, and get_remaining_budget() is 0
\* exactly when the total is at least the budget and None exactly when there is
\* no budget.
C38_BudgetSignalling ==
    [][/\ C5_IsRecord /\ ctCallback /\ is_budget_exceeded(ctBudget, ctTotal')
          => ctCalls' > 0
       /\ C38_RemainingConsistent']_vars

FallbackEntries(model) == {i \in 1..Len(rt.fallbacks) : rt.fallbacks[i].model = model}

\* the models the router configuration names as fallbacks of a model
FallbackSucc(model) ==
    UNION {{rt.fallbacks[i].chain[j] : j \in 1..Len(rt.fallbacks[i].chain)} :
           i \in FallbackEntries(model)}

RECURSIVE FallbackReach(_, _)
\* the models reached from a set of models in at most n fallback steps
FallbackReach(models, n) ==
    IF n = 0 THEN models
    ELSE FallbackReach(models \cup UNION {FallbackSucc(m) : m \in models}, n - 1)

RouterNames == RouterModels \cup FallbackNames

\* C31: when every option fails, complete() raises a ProviderError whose
\* cause is the underlying error the router ended on, and no other kind of
\* error
C31_RaisesProviderError ==
    (rt.op = "complete" /\ ~rt.returned)
        => (rt.raised.kind = "LLMProviderError" /\ rt.raised.cause = rt.error)

\* C40: in the configuration _create_router built, no model of
\* fallback_models has a fallback chain of its own, no model is its own
\* fallback, and no walk along fallbacks comes back to the model it left
C40_FallbacksAcyclic ==
    rt.pc = "ready" =>
        \A model \in RouterNames :
            /\ (\E j \in 1..Len(rt.fallback_models) : rt.fallback_models[j] = model)
                  => FallbackEntries(model) = {}
            /\ model \notin FallbackSucc(model)
            /\ model \notin FallbackReach(FallbackSucc(model), Cardinality(RouterNames))

C40_Witness ==
    /\ rt.pc = "ready"
    /\ rt.has_fallbacks
    /\ Len(rt.fallbacks) > 0
    /\ Len(rt.fallbacks) < Len(rt.model_list)

=============================================================================
